---- MODULE Spec2Model ----
(***************************************************************************)
(* Model of the cnosolar configuration GUI (src/cnosolar/gui_config.py)    *)
(* and of the net-effective-capacity statistic                             *)
(* (src/Cuadernos_Interactivos/scripts/cno_cen.py).                        *)
(*                                                                         *)
(* Text-field values are sequences of one-character strings, so that the   *)
(* formatting done by the handlers ('0, ' * n, [:-2]) and the parsing done *)
(* by check_mount / check_econfig (float, int, json.loads) are modelled by *)
(* what they do to the characters.                                         *)
(***************************************************************************)
EXTENDS Integers, Sequences, FiniteSets, TLC

\* ------------------------------------------------------------------ bounds
\* Largest subarray count the user enters in w_subarrays.
MaxArrays == 2
\* Longest list of numbers typed into a text field (str_to_list inputs).
MaxLen == 3

\* ------------------------------------------------------------- Python values
None == "None"

\* A value that is either None or a list.
NoneList == [null |-> TRUE, list |-> <<>>]
PyList(l) == [null |-> FALSE, list |-> l]

\* The outcome of a call: a returned value, or the exception it raised.
Ok(v) == [ok |-> TRUE, val |-> v, err |-> "none"]
Raise(e) == [ok |-> FALSE, val |-> <<>>, err |-> e]

\* ------------------------------------------------------------------- texts
Digits == <<"0", "1", "2", "3", "4", "5", "6", "7", "8", "9">>

IsDigit(c) == \E i \in 1..10 : Digits[i] = c

DigitVal(c) == (CHOOSE i \in 1..10 : Digits[i] = c) - 1

IsSpace(c) == c = " "

RECURSIVE Repeat(_, _)
\* Python's s * n for a string s: n copies, the empty string for n <= 0.
Repeat(s, n) == IF n <= 0 THEN <<>> ELSE s \o Repeat(s, n - 1)

\* Python's s[:-2].
DropLast2(s) == IF Len(s) <= 2 THEN <<>> ELSE SubSeq(s, 1, Len(s) - 2)

RECURSIVE LStrip(_)
LStrip(s) == IF s # <<>> /\ IsSpace(Head(s)) THEN LStrip(Tail(s)) ELSE s

RECURSIVE RStrip(_)
RStrip(s) ==
  IF s # <<>> /\ IsSpace(s[Len(s)]) THEN RStrip(SubSeq(s, 1, Len(s) - 1)) ELSE s

\* Python's s.strip(), which float(), int() and the JSON scanner apply.
Strip(s) == RStrip(LStrip(s))

RECURSIVE SplitComma(_)
\* The pieces of s between its commas (one piece more than commas).
SplitComma(s) ==
  IF \A i \in 1..Len(s) : s[i] # ","
  THEN <<s>>
  ELSE LET i == CHOOSE j \in 1..Len(s) :
                  s[j] = "," /\ \A k \in 1..(j - 1) : s[k] # ","
       IN <<SubSeq(s, 1, i - 1)>> \o SplitComma(SubSeq(s, i + 1, Len(s)))

RECURSIVE DigitsValue(_)
DigitsValue(s) ==
  IF s = <<>> THEN 0
  ELSE 10 * DigitsValue(SubSeq(s, 1, Len(s) - 1)) + DigitVal(s[Len(s)])

AllDigits(s) == s # <<>> /\ \A i \in 1..Len(s) : IsDigit(s[i])

\* A JSON number without fraction or exponent: -?(0|[1-9][0-9]*).
IsJsonNumber(s) ==
  LET d == IF s # <<>> /\ Head(s) = "-" THEN Tail(s) ELSE s
  IN AllDigits(d) /\ (Len(d) > 1 => d[1] # "0")

\* A Python numeric literal as float() and int() read it: [+-]?[0-9]+.
IsPyNumber(s) ==
  LET d == IF s # <<>> /\ Head(s) \in {"-", "+"} THEN Tail(s) ELSE s
  IN AllDigits(d)

SignedValue(s) ==
  IF s # <<>> /\ Head(s) = "-" THEN 0 - DigitsValue(Tail(s))
  ELSE IF s # <<>> /\ Head(s) = "+" THEN DigitsValue(Tail(s))
  ELSE DigitsValue(s)

\* json.loads of the text of an array of numbers.
json_loads(s) ==
  LET t == Strip(s) IN
  IF Len(t) < 2 \/ t[1] # "[" \/ t[Len(t)] # "]"
  THEN Raise("JSONDecodeError")
  ELSE LET inner == SubSeq(t, 2, Len(t) - 1)
           parts == SplitComma(inner)
       IN IF Strip(inner) = <<>>
          THEN Ok(<<>>)
          ELSE IF \A i \in 1..Len(parts) : IsJsonNumber(Strip(parts[i]))
               THEN Ok([i \in 1..Len(parts) |-> SignedValue(Strip(parts[i]))])
               ELSE Raise("JSONDecodeError")

\* float(text), int(text) of a text-field value.
py_float(s) ==
  IF IsPyNumber(Strip(s)) THEN Ok(SignedValue(Strip(s))) ELSE Raise("ValueError")

py_int(s) ==
  IF IsPyNumber(Strip(s)) THEN Ok(SignedValue(Strip(s))) ELSE Raise("ValueError")

\* A value that no call has bound yet.
Unset == [ok |-> FALSE, val |-> <<>>, err |-> "unset"]

\* Python's seq[i] (0-based) and whether it raises IndexError.
HasIndex(seq, i) == i + 1 <= Len(seq)
PyIndex(seq, i) == seq[i + 1]

\* str_to_list drops the brackets: a mutant that loses the last element.
str_to_list_droplast(string) ==
  LET r == json_loads(<<"[">> \o string \o <<"]">>)
  IN IF r.ok /\ r.val # <<>> THEN Ok(SubSeq(r.val, 1, Len(r.val) - 1)) ELSE r

str_to_list(string) == json_loads(<<"[">> \o string \o <<"]">>)

RECURSIVE NatToStr(_)
NatToStr(n) ==
  IF n < 10 THEN <<Digits[n + 1]>> ELSE NatToStr(n \div 10) \o <<Digits[(n % 10) + 1]>>

\* The characters a user types for the number n.
NumToStr(n) == IF n < 0 THEN <<"-">> \o NatToStr(0 - n) ELSE NatToStr(n)

RECURSIVE JoinWith(_, _)
\* The numbers of a list typed with the separator sep between them.
JoinWith(nums, sep) ==
  IF nums = <<>> THEN <<>>
  ELSE IF Len(nums) = 1 THEN NumToStr(nums[1])
  ELSE NumToStr(nums[1]) \o sep \o JoinWith(Tail(nums), sep)

\* --------------------------------------------------------------- variables
VARIABLES
  \* Inversor tab
  inverter_btn, inverter_vbox, dropdown_invrepo, dropdown_manufac,
  dropdown_manual, upload_btn, btn,
  \* result of the last call of check_inverter
  inverter_status,
  \* Modulo tab
  module_btn, module_vbox, dropdown_modrepo, dropdown_modmanu,
  upload_modbtn, modbtn, bifacial_vbox,
  \* result of the last call of check_module
  module_status,
  \* Diseno Planta tab
  w_subarrays, w_mps, w_spi, tracker_btn, sysconfig_vbox, genconfig_btn,
  \* what the last click on 'Generar Configuracion' produced, until an input of
  \* the form is touched
  genconfig_output,
  \* result of the last call of check_mount
  mount_status,
  \* Nombre Planta, the download button and the files under ./configurations
  w_name, download_btn, files,
  \* what the last click on 'Descargar Configuracion' produced, until an input
  \* of the form is touched
  output,
  \* the record of the last click on 'Generar Configuracion' that completed
  generated,
  \* a call of check_mount's list assembly: subarray count, field text, result
  num_arrays, string, typed, geometry,
  \* a call of get_cen: arguments and results
  ac, perc, decimals, cen

inverter_vars == <<inverter_btn, inverter_vbox, dropdown_invrepo, dropdown_manufac,
                   dropdown_manual, upload_btn, btn>>

module_vars == <<module_btn, module_vbox, dropdown_modrepo, dropdown_modmanu,
                 upload_modbtn, modbtn, bifacial_vbox>>

sysconfig_vars == <<w_subarrays, w_mps, w_spi, tracker_btn, sysconfig_vbox, genconfig_btn>>

\* What the callbacks and calls produce.
result_vars == <<inverter_status, module_status, mount_status, genconfig_output, output>>

download_vars == <<w_name, download_btn, files, generated>>

assembly_vars == <<num_arrays, string, typed, geometry>>

cen_vars == <<ac, perc, decimals, cen>>

vars == <<inverter_vars, module_vars, sysconfig_vars, result_vars, assembly_vars,
          cen_vars, download_vars>>

\* What the events of one tab leave alone.
not_inverter_vars == <<module_vars, sysconfig_vars, assembly_vars, cen_vars, download_vars>>
not_module_vars == <<inverter_vars, sysconfig_vars, assembly_vars, cen_vars, download_vars>>
not_sysconfig_vars == <<inverter_vars, module_vars, assembly_vars, cen_vars, download_vars>>

\* A local that was never bound.
Unbound == "<unbound>"

\* inverter_status, module_status and genconfig_output when the last event was
\* not the call that binds them.
UnsetModule == [ok |-> FALSE, val |-> <<>>, err |-> "unset", t |-> Unbound]
Idle == [ok |-> FALSE, val |-> <<>>, err |-> "idle"]

\* An event of the form: what the callback that ran before it had bound is gone.
Discard ==
  /\ inverter_status' = Unset
  /\ module_status' = UnsetModule
  /\ mount_status' = Unset
  /\ genconfig_output' = Idle
  /\ output' = Idle

\* ------------------------------------------------------------ Inversor tab
\* pvlib.pvsystem.retrieve_sam('CECInverter'): the columns of the inverter
\* repository (name = manufacturer + '__' + model).
CECInverter ==
  << [Name |-> "ABB__MICRO_0_25", manuf |-> "ABB",
      Vac |-> 208, Pso |-> 2, Paco |-> 250, Pdco |-> 259, Vdco |-> 40,
      C0 |-> -41, C1 |-> -91, C2 |-> 494, C3 |-> -13, Pnt |-> 1,
      Vdcmax |-> 50, Idcmax |-> 6, Mppt_low |-> 30, Mppt_high |-> 50],
     [Name |-> "ABB__MICRO_0_3", manuf |-> "ABB",
      Vac |-> 208, Pso |-> 3, Paco |-> 300, Pdco |-> 312, Vdco |-> 40,
      C0 |-> -33, C1 |-> -192, C2 |-> 907, C3 |-> -31, Pnt |-> 1,
      Vdcmax |-> 50, Idcmax |-> 7, Mppt_low |-> 30, Mppt_high |-> 50],
     [Name |-> "SMA__SB2000", manuf |-> "SMA",
      Vac |-> 240, Pso |-> 25, Paco |-> 2000, Pdco |-> 2100, Vdco |-> 310,
      C0 |-> -12, C1 |-> -20, C2 |-> 170, C3 |-> -60, Pnt |-> 1,
      Vdcmax |-> 480, Idcmax |-> 7, Mppt_low |-> 200, Mppt_high |-> 480] >>

\* retrieve_sam(name): the repository, or ValueError for a name it does not know.
retrieve_sam_inverters(name) ==
  IF name = "CECInverter" THEN Ok(CECInverter) ELSE Raise("ValueError")

RECURSIVE Unique(_)
\* pd.unique: the first occurrence of each element, in order.
Unique(s) ==
  IF s = <<>> THEN <<>>
  ELSE LET r == Unique(SubSeq(s, 1, Len(s) - 1))
           x == s[Len(s)]
       IN IF \E i \in 1..Len(r) : r[i] = x THEN r ELSE Append(r, x)

\* `new in s` for a repository name s: the manufacturer prefix, or the empty string.
NameContains(new, rec) == new = "" \/ new = rec.manuf

RECURSIVE SelectNames(_, _)
SelectNames(db, new) ==
  IF db = <<>> THEN <<>>
  ELSE (IF NameContains(new, Head(db)) THEN <<Head(db).Name>> ELSE <<>>)
       \o SelectNames(Tail(db), new)

\* The static children of inverter_vbox.
W_inverter_btn == [w |-> "inverter_btn"]
W_dropinvrepo == [w |-> "w_dropinvrepo"]
W_dropmanufac == [w |-> "w_dropmanufac"]
W_upload == [w |-> "w_upload"]
W_dropmanual == [w |-> "w_dropmanual"]

Shown(vbox, name) == \E i \in 1..Len(vbox) : vbox[i].w = name

InverterModes == {"Repositorio", "PVsyst", "Manual"}

\* handle_toggle of inverter_btn: the toggle replaces the children of the tab.
InverterToggleChildren(new) ==
  IF new = "Repositorio" THEN <<W_inverter_btn, W_dropinvrepo, W_dropmanufac>>
  ELSE IF new = "PVsyst" THEN <<W_inverter_btn, W_upload>>
  ELSE <<W_inverter_btn, W_dropmanual>>

handle_toggle_inverter(new) ==
  /\ new \in InverterModes
  /\ new # inverter_btn
  /\ inverter_btn' = new
  /\ inverter_vbox' = InverterToggleChildren(new)
  /\ Discard
  /\ UNCHANGED <<dropdown_invrepo, dropdown_manufac, dropdown_manual, upload_btn, btn>>
  /\ UNCHANGED not_inverter_vars

\* handle_dropdown_manuf: the user picks a repository in dropdown_invrepo
\* (label '' has value None, label 'CEC' has value 'CECInverter').
handle_dropdown_manuf(new) ==
  /\ Shown(inverter_vbox, "w_dropinvrepo")
  /\ new \in {None, "CECInverter"}
  /\ new # dropdown_invrepo
  /\ dropdown_invrepo' = new
  /\ Discard
  /\ LET inverters == retrieve_sam_inverters(new) IN
     IF ~inverters.ok
     THEN UNCHANGED <<dropdown_manufac, inverter_vbox>>
     ELSE LET manufacturers ==
                <<"">> \o [i \in 1..Len(inverters.val) |-> inverters.val[i].manuf]
                       \o <<new>>
              options == Unique(manufacturers)
          IN /\ dropdown_manufac' =
                  [options |-> options,
                   \* new options select the first one; equal options change nothing
                   value |-> IF options = dropdown_manufac.options
                             THEN dropdown_manufac.value ELSE options[1],
                   disabled |-> FALSE]
             /\ inverter_vbox' = <<W_inverter_btn, W_dropinvrepo, W_dropmanufac>>
  /\ UNCHANGED <<inverter_btn, dropdown_manual, upload_btn, btn>>
  /\ UNCHANGED not_inverter_vars

\* handle_dropdown_repo: the user picks a manufacturer in dropdown_manufac.
handle_dropdown_repo(new) ==
  /\ Shown(inverter_vbox, "w_dropmanufac")
  /\ ~dropdown_manufac.disabled
  /\ \E i \in 1..Len(dropdown_manufac.options) : dropdown_manufac.options[i] = new
  /\ new # dropdown_manufac.value
  /\ dropdown_manufac' = [dropdown_manufac EXCEPT !.value = new]
  /\ Discard
  /\ LET inverters ==
           retrieve_sam_inverters(dropdown_manufac.options[Len(dropdown_manufac.options)])
         inv_options == <<"">> \o SelectNames(inverters.val, new)
         w_dropinv == [w |-> "w_dropinv", options |-> inv_options, value |-> None]
     IN inverter_vbox' = <<W_inverter_btn, W_dropinvrepo, W_dropmanufac, w_dropinv>>
  /\ UNCHANGED <<inverter_btn, dropdown_invrepo, dropdown_manual, upload_btn, btn>>
  /\ UNCHANGED not_inverter_vars

\* The user picks an inverter in inv_drop (no observer).
select_inv_drop(v) ==
  /\ Shown(inverter_vbox, "w_dropinv")
  /\ \E i \in 1..Len(inverter_vbox[4].options) : inverter_vbox[4].options[i] = v
  /\ v # inverter_vbox[4].value
  /\ inverter_vbox' = [inverter_vbox EXCEPT ![4].value = v]
  /\ Discard
  /\ UNCHANGED <<inverter_btn, dropdown_invrepo, dropdown_manufac, dropdown_manual,
                 upload_btn, btn>>
  /\ UNCHANGED not_inverter_vars

\* Python dicts are functions on their keys.
EmptyDict == [k \in {} |-> None]

\* The .OND files on disk: what pvsyst.ond_to_inverter_param reads from each
\* (ond['pvGInverter']['TConverter'][...], Night_Loss, pvCommercial.Model).
OndFiles == {"inv1.OND"}

OndContent(path) ==
  [VOutConv |-> 400, PLim1 |-> 20, PNomConv |-> 1, PNomDC |-> 1,
   VNomEff |-> <<300, 360, 420>>, Night_Loss |-> 1, VAbsMax |-> 1000,
   IMaxDC |-> 12, VMppMin |-> 300, VMPPMax |-> 800, EfficEuro |-> 97,
   Model |-> "Inv 1"]

\* pvsyst.ond_to_inverter_param(path): fails when no file was selected.
ond_to_inverter_param(path) ==
  IF path \in OndFiles THEN Ok(OndContent(path)) ELSE Raise("FileNotFoundError")

\* What the file dialog returns: a file, or '' when it is cancelled.
DialogOnd == OndFiles \cup {""}

\* SelectFilesButton.select_files
select_files(path) ==
  /\ Shown(inverter_vbox, "w_upload")
  /\ path \in DialogOnd
  /\ upload_btn' = [files |-> path, description |-> "Seleccionado"]
  /\ Discard
  /\ UNCHANGED <<inverter_btn, inverter_vbox, dropdown_invrepo, dropdown_manufac,
                 dropdown_manual, btn>>
  /\ UNCHANGED not_inverter_vars

\* The inverter dict that on_button_clicked builds from the parsed .OND file.
OndInverter(ond) ==
  [Vac |-> ond.VOutConv, Pso |-> ond.PLim1, Paco |-> ond.PNomConv * 1000,
   Pdco |-> ond.PNomDC * 1000, pdc0 |-> ond.PNomDC * 1000,
   Vdco |-> PyIndex(ond.VNomEff, 1), Pnt |-> ond.Night_Loss,
   Vdcmax |-> ond.VAbsMax, Idcmax |-> ond.IMaxDC, Mppt_low |-> ond.VMppMin,
   Mppt_high |-> ond.VMPPMax, eta_inv_nom |-> ond.EfficEuro,
   eta_inv_ref |-> 9637, Name |-> ond.Model]

\* on_button_clicked of btn ('Cargar OND'): the label is set before the file is read.
on_button_clicked_ond ==
  /\ Shown(inverter_vbox, "w_upload")
  /\ LET ond == ond_to_inverter_param(upload_btn.files) IN
     btn' = [description |-> "OND Cargado",
             files |-> IF ond.ok THEN [inv |-> OndInverter(ond.val)] ELSE btn.files]
  /\ Discard
  /\ UNCHANGED <<inverter_btn, inverter_vbox, dropdown_invrepo, dropdown_manufac,
                 dropdown_manual, upload_btn>>
  /\ UNCHANGED not_inverter_vars

\* Values typed into the FloatText fields of the manual forms.
FloatInputs == {0, 2}

\* handle_dropdown_manual: every value but 'SNL PVlib' shows the PVWatts form.
ManualForm(new) ==
  IF new = "SNL PVlib"
  THEN [w |-> "inv_conf",
        children |-> <<"Configuracion SNL PVlib", 0, 0, 0, 0, 0, 0, 0, 0, 0>>]
  ELSE [w |-> "inv_conf", children |-> <<"Configuracion NREL PVWatts", 0, 0>>]

handle_dropdown_manual(new) ==
  /\ Shown(inverter_vbox, "w_dropmanual")
  /\ new \in {"", "SNL PVlib", "NREL PVWatts"}
  /\ new # dropdown_manual
  /\ dropdown_manual' = new
  /\ inverter_vbox' = <<W_inverter_btn, W_dropmanual, ManualForm(new)>>
  /\ Discard
  /\ UNCHANGED <<inverter_btn, dropdown_invrepo, dropdown_manufac, upload_btn, btn>>
  /\ UNCHANGED not_inverter_vars

\* BoundedFloatText(min=0, max=1) keeps its value inside the bounds.
Clamp01(v) == IF v < 0 THEN 0 ELSE IF v > 1 THEN 1 ELSE v

\* The fields of the manual inverter forms that the user fills in (Python
\* indices): Paco and Pdco of the SNL form, Pdco and the efficiency of the PVWatts
\* form; the other fields keep their default 0.0.
InvConfEdited == {1, 2}

\* The user types v into field i (Python index) of the manual inverter form;
\* the second field of the PVWatts form is the bounded efficiency.
edit_inv_conf(i, v) ==
  /\ Shown(inverter_vbox, "inv_conf")
  /\ i \in InvConfEdited
  /\ v \in FloatInputs
  /\ LET bounded == Len(inverter_vbox[3].children) = 3 /\ i = 2
         w == IF bounded THEN Clamp01(v) ELSE v
     IN /\ w # PyIndex(inverter_vbox[3].children, i)
        /\ inverter_vbox' = [inverter_vbox EXCEPT ![3].children[i + 1] = w]
  /\ Discard
  /\ UNCHANGED <<inverter_btn, dropdown_invrepo, dropdown_manufac, dropdown_manual,
                 upload_btn, btn>>
  /\ UNCHANGED not_inverter_vars

RECURSIVE FindName(_, _)
\* DataFrame[name]: the column of that name, KeyError when there is none.
FindName(db, name) ==
  IF db = <<>> THEN Raise("KeyError")
  ELSE IF Head(db).Name = name THEN Ok(Head(db)) ELSE FindName(Tail(db), name)

\* The branch of check_inverter for inverter_btn.value == 'Repositorio'.
check_inverter_repo ==
  IF ~HasIndex(inverter_vbox, 3) THEN Raise("IndexError")
  ELSE LET inverters_database == dropdown_invrepo
           inverter_name == PyIndex(inverter_vbox, 3).value
           sam == retrieve_sam_inverters(inverters_database)
       IN IF ~sam.ok THEN sam
          ELSE LET inverter == FindName(sam.val, inverter_name) IN
               IF ~inverter.ok THEN inverter
               ELSE Ok([inverters_database |-> inverters_database,
                        inverter_name |-> inverter_name,
                        inverter |-> [Paco |-> inverter.val.Paco,
                                      Pdco |-> inverter.val.Pdco,
                                      Vdco |-> inverter.val.Vdco,
                                      Pso |-> inverter.val.Pso,
                                      C0 |-> inverter.val.C0,
                                      C1 |-> inverter.val.C1,
                                      C2 |-> inverter.val.C2,
                                      C3 |-> inverter.val.C3,
                                      Pnt |-> inverter.val.Pnt],
                        ac_model |-> "sandia"])

\* The branch for inverter_btn.value == 'PVsyst'.
check_inverter_pvsyst ==
  IF "inv" \notin DOMAIN btn.files THEN Raise("KeyError")
  ELSE LET inverter == btn.files["inv"] IN
       Ok([inverters_database |-> None,
           inverter_name |-> None,
           inverter |-> [Pdco |-> inverter.Pdco, eta_inv_nom |-> inverter.eta_inv_nom],
           ac_model |-> "pvwatts"])

\* The branch for inverter_btn.value == 'Manual'.
check_inverter_manual ==
  IF dropdown_manual = "SNL PVlib"
  THEN IF ~HasIndex(inverter_vbox, 2) THEN Raise("IndexError")
       ELSE LET c == PyIndex(inverter_vbox, 2).children IN
            IF ~HasIndex(c, 9) THEN Raise("IndexError")
            ELSE Ok([inverters_database |-> None,
                     inverter_name |-> None,
                     inverter |-> [Paco |-> PyIndex(c, 1), Pdco |-> PyIndex(c, 2),
                                   Vdco |-> PyIndex(c, 3), Pso |-> PyIndex(c, 4),
                                   C0 |-> PyIndex(c, 5), C1 |-> PyIndex(c, 6),
                                   C2 |-> PyIndex(c, 7), C3 |-> PyIndex(c, 8),
                                   Pnt |-> PyIndex(c, 9)],
                     ac_model |-> "sandia"])
  ELSE IF dropdown_manual = "NREL PVWatts"
  THEN IF ~HasIndex(inverter_vbox, 2) THEN Raise("IndexError")
       ELSE LET c == PyIndex(inverter_vbox, 2).children IN
            IF ~HasIndex(c, 2) THEN Raise("IndexError")
            ELSE Ok([inverters_database |-> None,
                     inverter_name |-> None,
                     inverter |-> [Pdco |-> PyIndex(c, 1), eta_inv_nom |-> PyIndex(c, 2)],
                     ac_model |-> "pvwatts"])
  \* neither format: inverter and ac_model are unbound at the return
  ELSE Raise("UnboundLocalError")

\* check_inverter with the tag of the PVsyst branch swapped: a mutant.
check_inverter_swapped ==
  IF inverter_btn = "Repositorio" THEN check_inverter_repo
  ELSE IF inverter_btn = "PVsyst"
  THEN LET r == check_inverter_pvsyst IN
       IF r.ok THEN Ok([r.val EXCEPT !.ac_model = "sandia"]) ELSE r
  ELSE IF inverter_btn = "Manual" THEN check_inverter_manual
  ELSE Raise("UnboundLocalError")

\* check_inverter(): [inverters_database, inverter_name, inverter, ac_model].
check_inverter ==
  IF inverter_btn = "Repositorio" THEN check_inverter_repo
  ELSE IF inverter_btn = "PVsyst" THEN check_inverter_pvsyst
  ELSE IF inverter_btn = "Manual" THEN check_inverter_manual
  \* no mode selected: every local is unbound at the return
  ELSE Raise("UnboundLocalError")

\* The call of check_inverter that a click on either button starts with.
CheckInverter ==
  /\ inverter_status' = check_inverter
  /\ module_status' = UnsetModule
  /\ mount_status' = Unset
  /\ genconfig_output' = Idle
  /\ output' = Idle
  /\ UNCHANGED <<inverter_btn, inverter_vbox, dropdown_invrepo, dropdown_manufac,
                 dropdown_manual, upload_btn, btn>>
  /\ UNCHANGED not_inverter_vars

\* -------------------------------------------------------------- Modulo tab
\* Amperes, volts, watts and degrees are fixed-point numbers in thousandths;
\* temperature coefficients are fixed-point numbers in millionths.
Milli == 10 * 100

RECURSIVE LongDiv(_, _, _, _)
\* k more decimal digits of the quotient q with remainder r of a division by b.
LongDiv(q, r, b, k) ==
  IF k = 0 THEN [q |-> q, r |-> r]
  ELSE LongDiv(q * 10 + ((r * 10) \div b), (r * 10) % b, b, k - 1)

\* a * 10^k / b rounded half to even (np.round), for a >= 0 and b > 0.
ScaledDivNat(a, b, k) ==
  LET d == LongDiv(a \div b, a % b, b, k)
  IN IF 2 * d.r > b \/ (2 * d.r = b /\ d.q % 2 = 1) THEN d.q + 1 ELSE d.q

ScaledDiv(a, b, k) ==
  IF a < 0 THEN 0 - ScaledDivNat(0 - a, b, k) ELSE ScaledDivNat(a, b, k)

\* np.round(x * 100 / ref, 6): x in millionths, ref in thousandths, result in millionths.
PercentOf(x, ref) == ScaledDiv(x, ref, 5)

\* np.round(x * 100, 6): x and the result in millionths.
Times100(x) == x * 100

\* np.round(x, 2) of a number in millionths.
Round2(x) == ScaledDiv(x, 10000, 0) * 10000

\* np.round(i * v, 2): i, v and the result in thousandths.
PowerOf(i, v) == ScaledDiv(i * v, 10000, 0) * 10

\* pvlib.pvsystem.retrieve_sam('CECMod'): name = manufacturer + '_' + model.
CECMod ==
  << [Name |-> "Canadian_Solar_CS5P_220M", manuf |-> "Canadian",
      Technology |-> "Mono-c-Si", T_NOCT |-> 51400, N_s |-> 96,
      I_sc_ref |-> 5100, V_oc_ref |-> 59400, I_mp_ref |-> 4690, V_mp_ref |-> 46900,
      alpha_sc |-> 4539, beta_oc |-> -222160, gamma_r |-> -476000,
      STC |-> 219961, PTC |-> 200100, A_c |-> 1700, Bifacial |-> 0],
     [Name |-> "First_Solar_FS_272", manuf |-> "First",
      Technology |-> "CdTe", T_NOCT |-> 45000, N_s |-> 116,
      I_sc_ref |-> 1100, V_oc_ref |-> 90000, I_mp_ref |-> 1000, V_mp_ref |-> 72500,
      alpha_sc |-> 440, beta_oc |-> -225000, gamma_r |-> -250000,
      STC |-> 72500, PTC |-> 68600, A_c |-> 720, Bifacial |-> 0],
     [Name |-> "Zytech_Solar_ZT230P", manuf |-> "Zytech",
      Technology |-> "Multi-c-Si", T_NOCT |-> 46400, N_s |-> 60,
      I_sc_ref |-> 8310, V_oc_ref |-> 37100, I_mp_ref |-> 7760, V_mp_ref |-> 29700,
      alpha_sc |-> 5568, beta_oc |-> -125027, gamma_r |-> -467000,
      STC |-> 230472, PTC |-> 204300, A_c |-> 1634, Bifacial |-> 0] >>

\* pvlib.pvsystem.retrieve_sam('SandiaMod').
SandiaMod ==
  << [Name |-> "Canadian_Solar_CS5P_220M___2009_", manuf |-> "Canadian",
      Material |-> "c-Si", Cells_in_Series |-> 96,
      Isco |-> 5091, Voco |-> 59260, Impo |-> 4546, Vmpo |-> 48316,
      Aisc |-> 397, Bvoco |-> -218130, Aimp |-> 181, Bvmpo |-> -235490],
     [Name |-> "Uni_Solar_US_64___1997_", manuf |-> "Uni",
      Material |-> "3-a-Si", Cells_in_Series |-> 11,
      Isco |-> 4800, Voco |-> 23800, Impo |-> 3880, Vmpo |-> 16500,
      Aisc |-> 900, Bvoco |-> -93000, Aimp |-> 1600, Bvmpo |-> -47700] >>

retrieve_sam_modules(name) ==
  IF name = "CECMod" THEN Ok(CECMod)
  ELSE IF name = "SandiaMod" THEN Ok(SandiaMod)
  ELSE Raise("ValueError")

ModuleNames ==
  {CECMod[i].Name : i \in 1..Len(CECMod)} \cup {SandiaMod[i].Name : i \in 1..Len(SandiaMod)}

ModuleManufacturers ==
  {CECMod[i].manuf : i \in 1..Len(CECMod)} \cup {SandiaMod[i].manuf : i \in 1..Len(SandiaMod)}

\* The technology strings that check_module knows, list by list.
MonoSynonyms == {"Mono-c-Si", "monoSi", "monosi", "c-Si", "xsi", "mtSiMono"}
MultiSynonyms == {"Multi-c-Si", "multiSi", "multisi", "mc-Si", "EFG mc-Si"}
PolySynonyms == {"polySi", "polysi", "mtSiPoly"}
CisSynonyms == {"CIS", "cis"}
CigsSynonyms == {"CIGS", "cigs"}
CdteSynonyms == {"CdTe", "cdte", "Thin Film", "GaAs"}
AsiSynonyms == {"amorphous", "asi", "a-Si / mono-Si", "2-a-Si", "3-a-Si", "Si-Film",
                "HIT-Si"}

KnownSynonyms ==
  MonoSynonyms \cup MultiSynonyms \cup PolySynonyms \cup CisSynonyms
    \cup CigsSynonyms \cup CdteSynonyms \cup AsiSynonyms

\* Technology strings that no list holds.
UnknownTechnologies ==
  {None, "", "Mono-Si", "MONOSI", "mono-c-si", "polisi", "Poly-Si", "a-Si", "HIT",
   "mtCdTe", "Perovskite"}

TechInputs == KnownSynonyms \cup UnknownTechnologies

\* The normalisation with the 'polysi' spelling filed under multi-Si: a mutant.
NormalizeTechnology_misfiled(t) ==
  IF t \in MonoSynonyms THEN "monosi"
  ELSE IF t \in MultiSynonyms \cup {"polysi"} THEN "multisi"
  ELSE IF t \in PolySynonyms THEN "polisi"
  ELSE IF t \in CisSynonyms THEN "cis"
  ELSE IF t \in CigsSynonyms THEN "cigs"
  ELSE IF t \in CdteSynonyms THEN "cdte"
  ELSE IF t \in AsiSynonyms THEN "asi"
  ELSE None

\* The if/elif chain of check_module that maps module['Technology'] to module_tec.
NormalizeTechnology(t) ==
  IF t \in MonoSynonyms THEN "monosi"
  ELSE IF t \in MultiSynonyms THEN "multisi"
  ELSE IF t \in PolySynonyms THEN "polisi"
  ELSE IF t \in CisSynonyms THEN "cis"
  ELSE IF t \in CigsSynonyms THEN "cigs"
  ELSE IF t \in CdteSynonyms THEN "cdte"
  ELSE IF t \in AsiSynonyms THEN "asi"
  ELSE None

\* The static children of module_vbox.
W_module_btn == [w |-> "module_btn"]
W_dropmodrepo == [w |-> "w_dropmodrepo"]
W_dropmodmanu == [w |-> "w_dropmodmanu"]
W_modupload == [w |-> "w_modupload"]

ModuleModes == {"Repositorio", "PVsyst", "Manual"}

\* The values of w_Type, the technology dropdown of the manual form.
TypeOptions == {"monosi", "multisi", "polysi", "cis", "cigs", "cdte", "amorphous"}

\* The manual form mod_conf: the header, then T_NOCT, Technology, N_s, I_sc_ref,
\* V_oc_ref, I_mp_ref, V_mp_ref, alpha_sc, beta_oc, gamma_r, STC.
ModConf ==
  [w |-> "mod_conf", children |-> <<"Configuracion Modulo", 0, None, 0, 0, 0, 0, 0, 0, 0, 0, 0>>]

\* handle_modtoggle
ModuleToggleChildren(new) ==
  IF new = "Repositorio" THEN <<W_module_btn, W_dropmodrepo>>
  ELSE IF new = "PVsyst" THEN <<W_module_btn, W_modupload>>
  ELSE <<W_module_btn, ModConf>>

handle_modtoggle(new) ==
  /\ new \in ModuleModes
  /\ new # module_btn
  /\ module_btn' = new
  /\ module_vbox' = ModuleToggleChildren(new)
  /\ Discard
  /\ UNCHANGED <<dropdown_modrepo, dropdown_modmanu, upload_modbtn, modbtn, bifacial_vbox>>
  /\ UNCHANGED not_module_vars

\* The numeric fields of the manual module form that the user fills in (Python
\* indices): T_NOCT and STC; the other numeric fields keep their default 0.0.
ModConfEdited == {1, 11}

edit_mod_conf(i, v) ==
  /\ Shown(module_vbox, "mod_conf")
  /\ i \in ModConfEdited
  /\ v \in FloatInputs
  /\ v # PyIndex(module_vbox[2].children, i)
  /\ module_vbox' = [module_vbox EXCEPT ![2].children[i + 1] = v]
  /\ Discard
  /\ UNCHANGED <<module_btn, dropdown_modrepo, dropdown_modmanu, upload_modbtn, modbtn,
                 bifacial_vbox>>
  /\ UNCHANGED not_module_vars

\* The user picks a technology in w_Type, field 2 of the manual module form.
select_w_Type(v) ==
  /\ Shown(module_vbox, "mod_conf")
  /\ v \in TypeOptions
  /\ v # PyIndex(module_vbox[2].children, 2)
  /\ module_vbox' = [module_vbox EXCEPT ![2].children[3] = v]
  /\ Discard
  /\ UNCHANGED <<module_btn, dropdown_modrepo, dropdown_modmanu, upload_modbtn, modbtn,
                 bifacial_vbox>>
  /\ UNCHANGED not_module_vars

\* handle_dropdown_modmanuf: the user picks a repository in dropdown_modrepo.
handle_dropdown_modmanuf(new) ==
  /\ Shown(module_vbox, "w_dropmodrepo")
  /\ new \in {None, "PVFree", "CECMod", "SandiaMod"}
  /\ new # dropdown_modrepo
  /\ dropdown_modrepo' = new
  /\ Discard
  /\ IF new = "PVFree"
     THEN /\ module_vbox' =
               <<W_module_btn, W_dropmodrepo,
                 [w |-> "w_droppvfree", value |-> None],
                 [w |-> "w_modconf", value |-> 0]>>
          /\ UNCHANGED dropdown_modmanu
     ELSE LET modules == retrieve_sam_modules(new) IN
          IF ~modules.ok
          THEN UNCHANGED <<dropdown_modmanu, module_vbox>>
          ELSE LET manufacturers ==
                     <<"">> \o [i \in 1..Len(modules.val) |-> modules.val[i].manuf]
                            \o <<new>>
                   options == Unique(manufacturers)
               IN /\ dropdown_modmanu' =
                       [options |-> options,
                        value |-> IF options = dropdown_modmanu.options
                                  THEN dropdown_modmanu.value ELSE options[1],
                        disabled |-> FALSE]
                  /\ module_vbox' = <<W_module_btn, W_dropmodrepo, W_dropmodmanu>>
  /\ UNCHANGED <<module_btn, upload_modbtn, modbtn, bifacial_vbox>>
  /\ UNCHANGED not_module_vars

\* handle_dropdown_modrepo: the user picks a manufacturer in dropdown_modmanu.
handle_dropdown_modrepo(new) ==
  /\ Shown(module_vbox, "w_dropmodmanu")
  /\ ~dropdown_modmanu.disabled
  /\ \E i \in 1..Len(dropdown_modmanu.options) : dropdown_modmanu.options[i] = new
  /\ new # dropdown_modmanu.value
  /\ dropdown_modmanu' = [dropdown_modmanu EXCEPT !.value = new]
  /\ Discard
  /\ LET modules ==
           retrieve_sam_modules(dropdown_modmanu.options[Len(dropdown_modmanu.options)])
         mod_options == <<"">> \o SelectNames(modules.val, new)
         w_dropmod == [w |-> "w_dropmod", options |-> mod_options, value |-> None]
     IN module_vbox' = <<W_module_btn, W_dropmodrepo, W_dropmodmanu, w_dropmod>>
  /\ UNCHANGED <<module_btn, dropdown_modrepo, upload_modbtn, modbtn, bifacial_vbox>>
  /\ UNCHANGED not_module_vars

\* The user picks a module in mod_drop (no observer).
select_mod_drop(v) ==
  /\ Shown(module_vbox, "w_dropmod")
  /\ \E i \in 1..Len(module_vbox[4].options) : module_vbox[4].options[i] = v
  /\ v # module_vbox[4].value
  /\ module_vbox' = [module_vbox EXCEPT ![4].value = v]
  /\ Discard
  /\ UNCHANGED <<module_btn, dropdown_modrepo, dropdown_modmanu, upload_modbtn, modbtn,
                 bifacial_vbox>>
  /\ UNCHANGED not_module_vars

\* The user picks the PVFree database in dropdown_pvfree (no observer).
select_pvfree(v) ==
  /\ Shown(module_vbox, "w_droppvfree")
  /\ v \in {"", "cecmodule", "pvmodule"}
  /\ v # module_vbox[3].value
  /\ module_vbox' = [module_vbox EXCEPT ![3].value = v]
  /\ Discard
  /\ UNCHANGED <<module_btn, dropdown_modrepo, dropdown_modmanu, upload_modbtn, modbtn,
                 bifacial_vbox>>
  /\ UNCHANGED not_module_vars

\* The ids the user types into pvfree_id; PVFree knows id 1 only.
PVFreeIds == {0, 1}

edit_pvfree_id(v) ==
  /\ Shown(module_vbox, "w_modconf")
  /\ v \in PVFreeIds
  /\ v # module_vbox[4].value
  /\ module_vbox' = [module_vbox EXCEPT ![4].value = v]
  /\ Discard
  /\ UNCHANGED <<module_btn, dropdown_modrepo, dropdown_modmanu, upload_modbtn, modbtn,
                 bifacial_vbox>>
  /\ UNCHANGED not_module_vars

\* The .PAN files on disk: what pvsyst.pan_to_module_param reads from each.
PanFiles == {"mod1.PAN"}

PanContent(path) ==
  [Technol |-> "mtSiMono", TRef |-> 25000, NCelS |-> 60, Isc |-> 9000,
   Voc |-> 38000, Imp |-> 8500, Vmp |-> 31000, mIsc_percent |-> 48000,
   mVoc_percent |-> -316000, mPmpp |-> -410000, Pmpp |-> 263500,
   Gamma |-> 1050, IAM |-> <<1000, 990, 900>>]

\* pvsyst.pan_to_module_param(path): fails when no file was selected.
pan_to_module_param(path) ==
  IF path \in PanFiles THEN Ok(PanContent(path)) ELSE Raise("FileNotFoundError")

DialogPan == PanFiles \cup {""}

\* d[key] = value on a dict.
DictSet(d, key, value) ==
  [k \in DOMAIN d \cup {key} |-> IF k = key THEN value ELSE d[k]]

\* SelectPANButton.select_files
select_files_pan(path) ==
  /\ Shown(module_vbox, "w_modupload")
  /\ path \in DialogPan
  /\ upload_modbtn' = [files |-> path, description |-> "Seleccionado"]
  /\ Discard
  /\ UNCHANGED <<module_btn, module_vbox, dropdown_modrepo, dropdown_modmanu, modbtn,
                 bifacial_vbox>>
  /\ UNCHANGED not_module_vars

\* The module dict that on_modbutton_clicked stores.
PanModule(pan) ==
  DictSet(DictSet(DictSet(pan, "Adjust", 0), "Technology", pan.Technol),
          "T_NOCT", pan.TRef + 20 * Milli)

\* on_modbutton_clicked ('Cargar PAN'): the label is set before the file is read.
on_modbutton_clicked ==
  /\ Shown(module_vbox, "w_modupload")
  /\ LET pan == pan_to_module_param(upload_modbtn.files) IN
     modbtn' = [description |-> "PAN Cargado",
                files |-> IF pan.ok THEN [mod |-> PanModule(pan.val)] ELSE modbtn.files]
  /\ Discard
  /\ UNCHANGED <<module_btn, module_vbox, dropdown_modrepo, dropdown_modmanu,
                 upload_modbtn, bifacial_vbox>>
  /\ UNCHANGED not_module_vars

\* handle_dropdown_bifacial: 'Si' adds the form (bifaciality, row height, row
\* width), 'No' removes it.
handle_dropdown_bifacial(new) ==
  /\ new \in BOOLEAN
  /\ new # bifacial_vbox[1].value
  /\ bifacial_vbox' =
       IF new
       THEN <<[w |-> "w_dropbrifacial", value |-> TRUE],
              [w |-> "bif_conf", children |-> <<0, 0, 0>>]>>
       ELSE <<[w |-> "w_dropbrifacial", value |-> FALSE]>>
  /\ Discard
  /\ UNCHANGED <<module_btn, module_vbox, dropdown_modrepo, dropdown_modmanu,
                 upload_modbtn, modbtn>>
  /\ UNCHANGED not_module_vars

\* The field of the bifacial form that the user fills in (Python index): the
\* bifaciality; row height and row width keep their default 0.0.
BifConfEdited == {0}

\* The user types v into field i (Python index) of the bifacial form; field 0 is
\* the bounded bifaciality.
edit_bif_conf(i, v) ==
  /\ Shown(bifacial_vbox, "bif_conf")
  /\ i \in BifConfEdited
  /\ v \in FloatInputs
  /\ LET w == IF i = 0 THEN Clamp01(v) ELSE v
     IN /\ w # PyIndex(bifacial_vbox[2].children, i)
        /\ bifacial_vbox' = [bifacial_vbox EXCEPT ![2].children[i + 1] = w]
  /\ Discard
  /\ UNCHANGED <<module_btn, module_vbox, dropdown_modrepo, dropdown_modmanu,
                 upload_modbtn, modbtn>>
  /\ UNCHANGED not_module_vars

\* The record the PVFree service returns for .../<database>/<id>/, its technology
\* string being whatever the service holds.
PVFreeGet(database, id, technology) ==
  IF id # 1 THEN Raise("JSONDecodeError")
  ELSE IF database = "cecmodule"
  THEN Ok([Name |-> "Canadian Solar CS5P-220M", Technology |-> technology,
           T_NOCT |-> 51400, N_s |-> 96, I_sc_ref |-> 5100, V_oc_ref |-> 59400,
           I_mp_ref |-> 4690, V_mp_ref |-> 46900, alpha_sc |-> 4539,
           beta_oc |-> -222160, gamma_r |-> -476000, STC |-> 219961,
           PTC |-> 200100, A_c |-> 1700])
  ELSE IF database = "pvmodule"
  THEN Ok([Name |-> "Canadian Solar CS5P-220M [2009]", Material |-> technology,
           Cells_in_Series |-> 96, Isco |-> 5091, Voco |-> 59260, Impo |-> 4546,
           Vmpo |-> 48316, Aisc |-> 397, Bvoco |-> -218130, Aimp |-> 181,
           Bvmpo |-> -235490])
  ELSE Raise("JSONDecodeError")

\* The module dict built from a CECMod column.
ModuleFromCECMod(module) ==
  [T_NOCT |-> module.T_NOCT, Technology |-> module.Technology, N_s |-> module.N_s,
   I_sc_ref |-> module.I_sc_ref, V_oc_ref |-> module.V_oc_ref,
   I_mp_ref |-> module.I_mp_ref, V_mp_ref |-> module.V_mp_ref,
   alpha_sc |-> PercentOf(module.alpha_sc, module.I_sc_ref),
   beta_oc |-> PercentOf(module.beta_oc, module.V_oc_ref),
   gamma_r |-> module.gamma_r, STC |-> module.STC]

\* The module dict built from a SandiaMod column.
ModuleFromSandiaMod(module) ==
  [T_NOCT |-> 45 * Milli, Technology |-> module.Material,
   N_s |-> module.Cells_in_Series, I_sc_ref |-> module.Isco, V_oc_ref |-> module.Voco,
   I_mp_ref |-> module.Impo, V_mp_ref |-> module.Vmpo,
   alpha_sc |-> Times100(module.Aisc),
   beta_oc |-> PercentOf(module.Bvoco, module.Voco),
   gamma_r |-> 0, STC |-> PowerOf(module.Impo, module.Vmpo)]

\* The module dict built from a PVFree 'cecmodule' record.
ModuleFromPVFreeCec(module) ==
  [T_NOCT |-> module.T_NOCT, Technology |-> module.Technology, N_s |-> module.N_s,
   I_sc_ref |-> module.I_sc_ref, V_oc_ref |-> module.V_oc_ref,
   I_mp_ref |-> module.I_mp_ref, V_mp_ref |-> module.V_mp_ref,
   alpha_sc |-> module.alpha_sc, beta_oc |-> module.beta_oc,
   gamma_r |-> module.gamma_r, STC |-> module.STC]

\* The module dict built from a PVFree 'pvmodule' record.
ModuleFromPVFreePv(module) ==
  [T_NOCT |-> 45 * Milli, Technology |-> module.Material,
   N_s |-> module.Cells_in_Series, I_sc_ref |-> module.Isco, V_oc_ref |-> module.Voco,
   I_mp_ref |-> module.Impo, V_mp_ref |-> module.Vmpo,
   alpha_sc |-> Times100(module.Aisc),
   beta_oc |-> PercentOf(module.Bvoco, module.Voco),
   gamma_r |-> 0, STC |-> PowerOf(module.Impo, module.Vmpo)]

\* The PVsyst dict with the a_ref that the branch computes kept in it: a mutant.
ModuleFromPVsyst_with_a_ref(module) ==
  [T_NOCT |-> module.TRef, Technology |-> module.Technol, N_s |-> module.NCelS,
   I_sc_ref |-> module.Isc, V_oc_ref |-> module.Voc, I_mp_ref |-> module.Imp,
   V_mp_ref |-> module.Vmp, alpha_sc |-> Round2(module.mIsc_percent),
   beta_oc |-> Round2(module.mVoc_percent), gamma_r |-> module.mPmpp,
   STC |-> module.Pmpp, a_ref |-> module.a_ref]

\* The module dict built from the stored PVsyst record.
ModuleFromPVsyst(module) ==
  [T_NOCT |-> module.TRef, Technology |-> module.Technol, N_s |-> module.NCelS,
   I_sc_ref |-> module.Isc, V_oc_ref |-> module.Voc, I_mp_ref |-> module.Imp,
   V_mp_ref |-> module.Vmp, alpha_sc |-> Round2(module.mIsc_percent),
   beta_oc |-> Round2(module.mVoc_percent), gamma_r |-> module.mPmpp,
   STC |-> module.Pmpp]

\* The module dict built from the manual form c = mod_conf.children.
ModuleFromManual(c) ==
  [T_NOCT |-> PyIndex(c, 1), Technology |-> PyIndex(c, 2), N_s |-> PyIndex(c, 3),
   I_sc_ref |-> PyIndex(c, 4), V_oc_ref |-> PyIndex(c, 5), I_mp_ref |-> PyIndex(c, 6),
   V_mp_ref |-> PyIndex(c, 7), alpha_sc |-> PyIndex(c, 8), beta_oc |-> PyIndex(c, 9),
   gamma_r |-> PyIndex(c, 10), STC |-> PyIndex(c, 11)]

\* k T / q at 25 degrees, in millionths: 1.38e-23 * (273.15 + 25) / 1.6e-19.
ThermalVoltage == 25715

\* module['a_ref'] = Gamma * NCelS * (k T / q), written into the stored record.
WithARef(module) ==
  DictSet(module, "a_ref",
          ScaledDiv(module.Gamma * module.NCelS * ThermalVoltage, 1000000, 0))

Source(db, name, module) == Ok([modules_database |-> db, modules_name |-> name, module |-> module])

\* check_module, branch module_btn.value == 'Repositorio', repository not PVFree.
check_module_repo ==
  IF ~HasIndex(module_vbox, 3) THEN Raise("IndexError")
  ELSE IF PyIndex(module_vbox, 3).w # "w_dropmod" THEN Raise("AttributeError")
  ELSE LET modules_database == dropdown_modrepo
           modules_name == PyIndex(module_vbox, 3).value
           sam == retrieve_sam_modules(modules_database)
       IN IF ~sam.ok THEN sam
          ELSE LET module == FindName(sam.val, modules_name) IN
               IF ~module.ok THEN module
               ELSE IF modules_database = "CECMod"
               THEN Source(modules_database, modules_name, ModuleFromCECMod(module.val))
               ELSE Source(modules_database, modules_name, ModuleFromSandiaMod(module.val))

\* check_module, branch 'Repositorio' with the PVFree repository.
check_module_pvfree(technology) ==
  IF ~HasIndex(module_vbox, 3) THEN Raise("IndexError")
  ELSE LET modules_database == dropdown_modrepo
           database == PyIndex(module_vbox, 2).value
           module == PVFreeGet(database, PyIndex(module_vbox, 3).value, technology)
       IN IF ~module.ok THEN module
          ELSE IF database = "cecmodule"
          THEN Source(modules_database, module.val.Name, ModuleFromPVFreeCec(module.val))
          ELSE Source(modules_database, module.val.Name, ModuleFromPVFreePv(module.val))

\* The PVsyst branch made to reuse what an earlier click left in the stored
\* record: the a_ref found there is carried into the returned dict.
check_module_pvsyst_reusing ==
  IF "mod" \notin DOMAIN modbtn.files THEN Raise("KeyError")
  ELSE IF "a_ref" \in DOMAIN modbtn.files["mod"]
  THEN Source(None, None, ModuleFromPVsyst_with_a_ref(modbtn.files["mod"]))
  ELSE Source(None, None, ModuleFromPVsyst(WithARef(modbtn.files["mod"])))

\* check_module, branch module_btn.value == 'PVsyst'.
check_module_pvsyst ==
  IF "mod" \notin DOMAIN modbtn.files THEN Raise("KeyError")
  ELSE Source(None, None, ModuleFromPVsyst(WithARef(modbtn.files["mod"])))

\* check_module, branch module_btn.value == 'Manual'.
check_module_manual ==
  Source(None, None, ModuleFromManual(PyIndex(module_vbox, 1).children))

\* The module dict and names that the branch of the selected mode binds.
check_module_source(technology) ==
  IF module_btn = "Repositorio"
  THEN IF dropdown_modrepo # "PVFree" THEN check_module_repo
       ELSE check_module_pvfree(technology)
  ELSE IF module_btn = "PVsyst" THEN check_module_pvsyst
  ELSE IF module_btn = "Manual" THEN check_module_manual
  \* no mode selected: module is unbound at t = module['Technology']
  ELSE Raise("UnboundLocalError")

\* The bifacial values check_module reads from bifacial_vbox.
Bifacial ==
  IF PyIndex(bifacial_vbox, 0).value = FALSE
  THEN [bifacial |-> FALSE, bifaciality |-> 0, row_height |-> 0, row_width |-> 0]
  ELSE LET c == PyIndex(bifacial_vbox, 1).children
       IN [bifacial |-> TRUE, bifaciality |-> PyIndex(c, 0),
           row_height |-> PyIndex(c, 1), row_width |-> PyIndex(c, 2)]

\* check_module(): [modules_database, modules_name, module, bifacial, bifaciality,
\* row_height, row_width], with the local t the technology was normalised from.
\* technology is the string PVFree reports, used by the PVFree branch only.
check_module(technology) ==
  LET src == check_module_source(technology) IN
  IF ~src.ok THEN [ok |-> FALSE, val |-> <<>>, err |-> src.err, t |-> Unbound]
  ELSE LET t == src.val.module.Technology
           module_tec == NormalizeTechnology(t)
           module == [src.val.module EXCEPT !.Technology = module_tec]
           b == Bifacial
       IN [ok |-> TRUE,
           val |-> [modules_database |-> src.val.modules_database,
                    modules_name |-> src.val.modules_name,
                    module |-> module,
                    bifacial |-> b.bifacial, bifaciality |-> b.bifaciality,
                    row_height |-> b.row_height, row_width |-> b.row_width],
           err |-> "none", t |-> t]

\* The stored PVsyst record after check_module ran: the PVsyst branch writes a_ref
\* into it.
check_module_files ==
  IF module_btn = "PVsyst" /\ "mod" \in DOMAIN modbtn.files
  THEN [mod |-> WithARef(modbtn.files["mod"])]
  ELSE modbtn.files

\* The technology strings PVFree may report when check_module asks it.
PVFreeTechnologies ==
  IF module_btn = "Repositorio" /\ dropdown_modrepo = "PVFree" THEN TechInputs ELSE {None}

\* The call of check_module that a click on either button makes.
CheckModule ==
  /\ \E technology \in PVFreeTechnologies : module_status' = check_module(technology)
  /\ inverter_status' = Unset
  /\ mount_status' = Unset
  /\ genconfig_output' = Idle
  /\ output' = Idle
  /\ modbtn' = [modbtn EXCEPT !.files = check_module_files]
  /\ UNCHANGED <<module_btn, module_vbox, dropdown_modrepo, dropdown_modmanu,
                 upload_modbtn, bifacial_vbox>>
  /\ UNCHANGED not_module_vars

InitModule ==
  /\ module_btn = None
  /\ module_vbox = <<W_module_btn>>
  /\ dropdown_modrepo = None
  /\ dropdown_modmanu = [options |-> <<>>, value |-> None, disabled |-> TRUE]
  /\ upload_modbtn = [files |-> None, description |-> "Seleccionar"]
  /\ modbtn = [description |-> "Cargar PAN", files |-> EmptyDict]
  /\ bifacial_vbox = <<[w |-> "w_dropbrifacial", value |-> FALSE]>>

InitInverter ==
  /\ inverter_btn = None
  /\ inverter_vbox = <<W_inverter_btn>>
  /\ dropdown_invrepo = None
  /\ dropdown_manufac = [options |-> <<>>, value |-> None, disabled |-> TRUE]
  /\ dropdown_manual = None
  /\ upload_btn = [files |-> None, description |-> "Seleccionar"]
  /\ btn = [description |-> "Cargar OND", files |-> EmptyDict]

NextInverter ==
  \/ \E new \in InverterModes : handle_toggle_inverter(new)
  \/ \E new \in {None, "CECInverter"} : handle_dropdown_manuf(new)
  \/ \E new \in {"", "ABB", "SMA", "CECInverter"} : handle_dropdown_repo(new)
  \/ \E v \in {"", "ABB__MICRO_0_25", "ABB__MICRO_0_3", "SMA__SB2000"} :
        select_inv_drop(v)
  \/ \E path \in DialogOnd : select_files(path)
  \/ on_button_clicked_ond
  \/ \E new \in {"", "SNL PVlib", "NREL PVWatts"} : handle_dropdown_manual(new)
  \/ \E i \in InvConfEdited, v \in FloatInputs : edit_inv_conf(i, v)
  \/ CheckInverter

NextModule ==
  \/ \E new \in ModuleModes : handle_modtoggle(new)
  \/ \E i \in ModConfEdited, v \in FloatInputs : edit_mod_conf(i, v)
  \/ \E v \in TypeOptions : select_w_Type(v)
  \/ \E new \in {None, "PVFree", "CECMod", "SandiaMod"} : handle_dropdown_modmanuf(new)
  \/ \E new \in ModuleManufacturers \cup {"", "CECMod", "SandiaMod"} :
        handle_dropdown_modrepo(new)
  \/ \E v \in ModuleNames \cup {""} : select_mod_drop(v)
  \/ \E v \in {"", "cecmodule", "pvmodule"} : select_pvfree(v)
  \/ \E v \in PVFreeIds : edit_pvfree_id(v)
  \/ \E path \in DialogPan : select_files_pan(path)
  \/ on_modbutton_clicked
  \/ \E new \in BOOLEAN : handle_dropdown_bifacial(new)
  \/ \E i \in BifConfEdited, v \in FloatInputs : edit_bif_conf(i, v)
  \/ CheckModule

\* ------------------------------------------------------- Diseno Planta tab
\* The widgets of the other tabs that sys_config reads and no handler writes.
w_latitude == 0
w_longitude == 0
w_altitude == 0
w_timezone == "America/Bogota"
w_albedo == 0
w_numinv == 1
\* 14.6 %, in thousandths
w_loss == 14600
kpc_loss == 0
kt_loss == 0
kin_loss == 0

\* handle_mppt: the text that w_mps and w_spi get for `new` subarrays.
v_others(new) ==
  IF new = 1 THEN <<"0">> ELSE DropLast2(Repeat(<<"0", ",", " ">>, new))

\* handle_mppt, observing w_subarrays: the user sets the number of subarrays.
handle_mppt(new) ==
  /\ new \in 0..MaxArrays
  /\ new # w_subarrays
  /\ w_subarrays' = new
  /\ w_mps' = v_others(new)
  /\ w_spi' = v_others(new)
  /\ Discard
  /\ UNCHANGED <<tracker_btn, sysconfig_vbox, genconfig_btn>>
  /\ UNCHANGED not_sysconfig_vars

\* What the user types into an angle field instead of what the form put there:
\* one number, and a text that is no number.
UserTexts == {<<"7">>, <<"a">>}

\* What the user types into w_mps or w_spi: one number.
CountTexts == {<<"7">>}

edit_w_mps(t) ==
  /\ t # w_mps
  /\ w_mps' = t
  /\ Discard
  /\ UNCHANGED <<w_subarrays, w_spi, tracker_btn, sysconfig_vbox, genconfig_btn>>
  /\ UNCHANGED not_sysconfig_vars

edit_w_spi(t) ==
  /\ t # w_spi
  /\ w_spi' = t
  /\ Discard
  /\ UNCHANGED <<w_subarrays, w_mps, tracker_btn, sysconfig_vbox, genconfig_btn>>
  /\ UNCHANGED not_sysconfig_vars

\* handle_toggle of tracker_btn: the text the new angle fields start with.
v_angles ==
  IF w_subarrays = 1 THEN <<"0">> ELSE DropLast2(Repeat(<<"0", ",", " ">>, w_subarrays))

TextField(name, value) == [w |-> name, value |-> value]

\* The racking dropdown: no selection until the user makes one.
RackingOptions == {"", "open_rack", "close_mount", "insulated_back"}

no_tracker ==
  [w |-> "no_tracker",
   children |-> <<TextField("w_Tilt", v_angles), TextField("w_Azimuth", v_angles),
                  [w |-> "w_Racking", value |-> None]>>]

single_tracker ==
  [w |-> "single_tracker",
   children |-> <<TextField("w_AxisTilt", v_angles), TextField("w_AxisAzimuth", v_angles),
                  TextField("w_MaxAngle", v_angles),
                  [w |-> "w_Racking", value |-> None]>>]

TrackerModes == {"Sin Seguidor", "Seguidor 1-Eje"}

\* handle_toggle of tracker_btn: a new form with fresh widgets replaces the old one.
handle_toggle_tracker(new) ==
  /\ new \in TrackerModes
  /\ new # tracker_btn
  /\ tracker_btn' = new
  /\ sysconfig_vbox' =
       <<[w |-> "header_TO"], [w |-> "tracker_btn"],
         IF new = "Sin Seguidor" THEN no_tracker ELSE single_tracker>>
  /\ Discard
  /\ UNCHANGED <<w_subarrays, w_mps, w_spi, genconfig_btn>>
  /\ UNCHANGED not_sysconfig_vars

\* The angle fields the user retypes (Python indices in the form).
GeometryEdited == {0, 1}

\* The user types t into angle field i of the form.
edit_geometry(i, t) ==
  /\ HasIndex(sysconfig_vbox, 2)
  /\ i \in GeometryEdited
  /\ PyIndex(PyIndex(sysconfig_vbox, 2).children, i).value # t
  /\ sysconfig_vbox' = [sysconfig_vbox EXCEPT ![3].children[i + 1].value = t]
  /\ Discard
  /\ UNCHANGED <<w_subarrays, w_mps, w_spi, tracker_btn, genconfig_btn>>
  /\ UNCHANGED not_sysconfig_vars

\* The user picks v in the racking dropdown, the last child of the form.
select_w_Racking(v) ==
  /\ HasIndex(sysconfig_vbox, 2)
  /\ v \in RackingOptions
  /\ LET n == Len(PyIndex(sysconfig_vbox, 2).children) IN
     /\ PyIndex(sysconfig_vbox, 2).children[n].value # v
     /\ sysconfig_vbox' = [sysconfig_vbox EXCEPT ![3].children[n].value = v]
  /\ Discard
  /\ UNCHANGED <<w_subarrays, w_mps, w_spi, tracker_btn, genconfig_btn>>
  /\ UNCHANGED not_sysconfig_vars

\* The list assembly with the length check the code does not make: a list of
\* another length than the subarray count is refused.
AssembleAngles_checked(n, text) ==
  IF n = 1
  THEN LET r == py_float(text) IN IF r.ok THEN Ok(<<r.val>>) ELSE r
  ELSE IF n > 1
  THEN LET r == str_to_list(text) IN
       IF r.ok /\ Len(r.val) # n THEN Raise("ValueError") ELSE r
  ELSE Unset

\* The if/elif on num_arrays that binds one list of angles from the text of its
\* field; neither branch runs for num_arrays < 1 and the name stays unbound.
AssembleAngles(n, text) ==
  IF n = 1
  THEN LET r == py_float(text) IN IF r.ok THEN Ok(<<r.val>>) ELSE r
  ELSE IF n > 1 THEN str_to_list(text)
  ELSE Unset

\* The same if/elif of check_econfig, with int().
AssembleCounts(n, text) ==
  IF n = 1
  THEN LET r == py_int(text) IN IF r.ok THEN Ok(<<r.val>>) ELSE r
  ELSE IF n > 1 THEN str_to_list(text)
  ELSE Unset

\* The if/elif chain on racking_model of the fixed branch.
module_type_fixed(racking_model) ==
  IF racking_model = "open_rack" THEN "glass_glass"
  ELSE IF racking_model = "close_mount" THEN "glass_glass"
  ELSE IF racking_model = "insulated_back" THEN "glass_polymer"
  ELSE Unbound

\* The chain of the tracker branch with the tag of close_mount exchanged.
module_type_tracker_polymer(racking_model) ==
  IF racking_model = "open_rack" THEN "glass_glass"
  ELSE IF racking_model = "close_mount" THEN "glass_polymer"
  ELSE IF racking_model = "insulated_back" THEN "glass_polymer"
  ELSE Unbound

\* The if/elif chain on racking_model of the tracker branch.
module_type_tracker(racking_model) ==
  IF racking_model = "open_rack" THEN "glass_glass"
  ELSE IF racking_model = "close_mount" THEN "glass_glass"
  ELSE IF racking_model = "insulated_back" THEN "glass_polymer"
  ELSE Unbound

FormValue(i) == PyIndex(PyIndex(sysconfig_vbox, 2).children, i).value

\* check_mount, branch tracker_btn.value == 'Sin Seguidor'.
check_mount_fixed(n) ==
  LET racking_model == FormValue(2)
      surface_tilt == AssembleAngles(n, FormValue(0))
      surface_azimuth == AssembleAngles(n, FormValue(1))
      module_type == module_type_fixed(racking_model)
  IN IF n >= 1 /\ ~surface_tilt.ok THEN surface_tilt
     ELSE IF n >= 1 /\ ~surface_azimuth.ok THEN surface_azimuth
     ELSE IF n < 1 \/ module_type = Unbound THEN Raise("UnboundLocalError")
     ELSE Ok([with_tracker |-> FALSE,
              surface_azimuth |-> PyList(surface_azimuth.val),
              surface_tilt |-> PyList(surface_tilt.val),
              axis_tilt |-> NoneList, axis_azimuth |-> NoneList,
              max_angle |-> NoneList,
              module_type |-> module_type, racking_model |-> racking_model])

\* The tracker branch without its two assignments of None: a mutant that also
\* fills the fixed-mount fields.
check_mount_tracker_filled(n) ==
  LET racking_model == FormValue(3)
      axis_tilt == AssembleAngles(n, FormValue(0))
      axis_azimuth == AssembleAngles(n, FormValue(1))
      max_angle == AssembleAngles(n, FormValue(2))
      module_type == module_type_tracker(racking_model)
  IN IF n >= 1 /\ ~axis_tilt.ok THEN axis_tilt
     ELSE IF n >= 1 /\ ~axis_azimuth.ok THEN axis_azimuth
     ELSE IF n >= 1 /\ ~max_angle.ok THEN max_angle
     ELSE IF n < 1 \/ module_type = Unbound THEN Raise("UnboundLocalError")
     ELSE Ok([with_tracker |-> TRUE,
              surface_azimuth |-> PyList(axis_azimuth.val),
              surface_tilt |-> PyList(axis_tilt.val),
              axis_tilt |-> PyList(axis_tilt.val),
              axis_azimuth |-> PyList(axis_azimuth.val),
              max_angle |-> PyList(max_angle.val),
              module_type |-> module_type, racking_model |-> racking_model])

\* check_mount, branch tracker_btn.value == 'Seguidor 1-Eje'.
check_mount_tracker(n) ==
  LET racking_model == FormValue(3)
      axis_tilt == AssembleAngles(n, FormValue(0))
      axis_azimuth == AssembleAngles(n, FormValue(1))
      max_angle == AssembleAngles(n, FormValue(2))
      module_type == module_type_tracker(racking_model)
  IN IF n >= 1 /\ ~axis_tilt.ok THEN axis_tilt
     ELSE IF n >= 1 /\ ~axis_azimuth.ok THEN axis_azimuth
     ELSE IF n >= 1 /\ ~max_angle.ok THEN max_angle
     ELSE IF n < 1 \/ module_type = Unbound THEN Raise("UnboundLocalError")
     ELSE Ok([with_tracker |-> TRUE,
              surface_azimuth |-> NoneList, surface_tilt |-> NoneList,
              axis_tilt |-> PyList(axis_tilt.val),
              axis_azimuth |-> PyList(axis_azimuth.val),
              max_angle |-> PyList(max_angle.val),
              module_type |-> module_type, racking_model |-> racking_model])

\* check_mount(num_arrays): [with_tracker, surface_azimuth, surface_tilt, axis_tilt,
\* axis_azimuth, max_angle, module_type, racking_model].
check_mount(n) ==
  IF tracker_btn = "Sin Seguidor" THEN check_mount_fixed(n)
  ELSE IF tracker_btn = "Seguidor 1-Eje" THEN check_mount_tracker(n)
  \* no mode selected: every local is unbound at the return
  ELSE Raise("UnboundLocalError")

\* check_econfig(num_arrays): [modules_per_string, strings_per_inverter,
\* num_inverters].
check_econfig(n) ==
  LET num_inverters == w_numinv
      modules_per_string == AssembleCounts(n, w_mps)
      strings_per_inverter == AssembleCounts(n, w_spi)
  IN IF n >= 1 /\ ~modules_per_string.ok THEN modules_per_string
     ELSE IF n >= 1 /\ ~strings_per_inverter.ok THEN strings_per_inverter
     ELSE IF n < 1 THEN Raise("UnboundLocalError")
     ELSE Ok([modules_per_string |-> modules_per_string.val,
              strings_per_inverter |-> strings_per_inverter.val,
              num_inverters |-> num_inverters])

\* sys_config: the system configuration, from the four status lists and the
\* widgets.
sys_config(inverter_st, module_st, mount_st, econfig_st) ==
  [latitude |-> w_latitude,
   longitude |-> w_longitude,
   tz |-> w_timezone,
   altitude |-> w_altitude,
   surface_albedo |-> w_albedo,
   inverter |-> inverter_st.inverter,
   ac_model |-> inverter_st.ac_model,
   module |-> module_st.module,
   bifacial |-> module_st.bifacial,
   bifaciality |-> module_st.bifaciality,
   row_height |-> module_st.row_height,
   row_width |-> module_st.row_width,
   with_tracker |-> mount_st.with_tracker,
   surface_azimuth |-> mount_st.surface_azimuth,
   surface_tilt |-> mount_st.surface_tilt,
   axis_tilt |-> mount_st.axis_tilt,
   axis_azimuth |-> mount_st.axis_azimuth,
   max_angle |-> mount_st.max_angle,
   num_arrays |-> w_subarrays,
   modules_per_string |-> econfig_st.modules_per_string,
   strings_per_inverter |-> econfig_st.strings_per_inverter,
   num_inverter |-> econfig_st.num_inverters,
   loss |-> w_loss,
   kpc |-> kpc_loss,
   kt |-> kt_loss,
   kin |-> kin_loss,
   name |-> w_name]

\* The run of on_genconfig_clicked from its four checks on: an exception ends
\* it where it is raised.
generate(inverter_st, module_st) ==
  LET mount_st == check_mount(w_subarrays)
      econfig_st == check_econfig(w_subarrays)
  IN IF ~inverter_st.ok THEN Raise(inverter_st.err)
     ELSE IF ~module_st.ok THEN Raise(module_st.err)
     ELSE IF ~mount_st.ok THEN Raise(mount_st.err)
     ELSE IF ~econfig_st.ok THEN Raise(econfig_st.err)
     ELSE Ok(sys_config(inverter_st.val, module_st.val, mount_st.val,
                        econfig_st.val))

\* The click with the two label assignments moved before the checks: the
\* button is relabelled whatever the checks do.
genconfig_callback_relabel_first ==
  \E technology \in PVFreeTechnologies :
  \E inverter_st \in {check_inverter}, module_st \in {check_module(technology)} :
  \E out \in {generate(inverter_st, module_st)} :
       /\ inverter_status' = inverter_st
       /\ module_status' = IF inverter_st.ok THEN module_st ELSE UnsetModule
       /\ mount_status' = IF inverter_st.ok /\ module_st.ok
                          THEN check_mount(w_subarrays)
                          ELSE Unset
       /\ modbtn' = IF inverter_st.ok
                    THEN [modbtn EXCEPT !.files = check_module_files]
                    ELSE modbtn
       /\ genconfig_output' = out
       /\ genconfig_btn' = "Configuracion Generada"
       /\ UNCHANGED <<w_subarrays, w_mps, w_spi, tracker_btn, sysconfig_vbox>>
       /\ UNCHANGED <<inverter_vars, module_btn, module_vbox, dropdown_modrepo,
                      dropdown_modmanu, upload_modbtn, bifacial_vbox>>
       /\ UNCHANGED <<assembly_vars, cen_vars>>
       /\ UNCHANGED <<output, w_name, download_btn, files>>

\* What on_genconfig_clicked does to the widgets and to the results: a click on
\* 'Generar Configuracion'. The label changes only when every step before it
\* returned; the record is a local of the callback and nothing keeps it.
genconfig_callback ==
  \E technology \in PVFreeTechnologies :
  \E inverter_st \in {check_inverter}, module_st \in {check_module(technology)} :
  \E out \in {generate(inverter_st, module_st)} :
       /\ inverter_status' = inverter_st
       /\ module_status' = IF inverter_st.ok THEN module_st ELSE UnsetModule
       /\ mount_status' = IF inverter_st.ok /\ module_st.ok
                          THEN check_mount(w_subarrays)
                          ELSE Unset
       /\ modbtn' = IF inverter_st.ok
                    THEN [modbtn EXCEPT !.files = check_module_files]
                    ELSE modbtn
       /\ genconfig_output' = out
       /\ genconfig_btn' = IF out.ok THEN "Configuracion Generada" ELSE genconfig_btn
       /\ UNCHANGED <<w_subarrays, w_mps, w_spi, tracker_btn, sysconfig_vbox>>
       /\ UNCHANGED <<inverter_vars, module_btn, module_vbox, dropdown_modrepo,
                      dropdown_modmanu, upload_modbtn, bifacial_vbox>>
       /\ UNCHANGED <<assembly_vars, cen_vars>>
       /\ UNCHANGED <<output, w_name, download_btn, files>>

on_genconfig_clicked == genconfig_callback /\ UNCHANGED generated

\* The same click observed with a history variable: `generated` remembers the
\* record of the last click that completed (the program itself keeps none).
on_genconfig_clicked_recorded ==
  /\ genconfig_callback
  /\ generated' = IF genconfig_output'.ok THEN genconfig_output' ELSE generated

\* Nombre Planta is typed.
NameTexts == {<<>>, <<"p", "1">>}

edit_w_name(t) ==
  /\ w_name' = t
  /\ Discard
  /\ UNCHANGED <<inverter_vars, module_vars, sysconfig_vars, assembly_vars, cen_vars>>
  /\ UNCHANGED <<download_btn, files, generated>>

\* The path the download writes, without the suffix of Nombre Planta.
json_file_unnamed == <<"./configurations/system_config.json">>

\* The path the download writes: Nombre Planta, when not blank, is a suffix of
\* the file name.
json_file ==
  IF w_name # <<>>
  THEN <<"./configurations/system_config_">> \o w_name \o <<".json">>
  ELSE <<"./configurations/system_config.json">>

\* json.dump(system_configuration, f, indent=2): the text of the file. None is
\* written as null; numbers, strings, lists and booleans keep their value.
JsonNull == "null"
json_dump(obj) ==
  [obj EXCEPT !.module.Technology = IF @ = None THEN JsonNull ELSE @]

\* open(json_file, 'w') left open: the file is truncated, written, and the
\* handle stays open.
with_open_unclosed(fs, path, text) ==
  DictSet(fs, path, [open |-> TRUE, content |-> text])

\* with open(json_file, 'w') as f: json.dump(...): the file is created or
\* truncated, the text written, and the file closed on leaving the block.
with_open_w(fs, path, text) ==
  LET opened == DictSet(fs, path, [open |-> TRUE, content |-> <<>>])
      dumped == [opened EXCEPT ![path].content = text]
  IN [dumped EXCEPT ![path].open = FALSE]

\* The keys of the record that json.dump has written when it reaches the
\* value of 'module', in the order of the dict literal of sys_config.
KeysBeforeModule ==
  {"latitude", "longitude", "tz", "altitude", "surface_albedo", "inverter", "ac_model"}

\* with open(json_file, 'w') as f: json.dump(...) when json.dump raises at a
\* value of the module dict: the file was created or truncated by open, holds
\* what was written before the value, and is closed on leaving the block.
with_open_w_raising(fs, path, text) ==
  LET opened == DictSet(fs, path, [open |-> TRUE, content |-> <<>>])
      partial == [opened EXCEPT ![path].content = [k \in KeysBeforeModule |-> text[k]]]
  IN [partial EXCEPT ![path].open = FALSE]

\* on_button_clicked of download_btn: a click on 'Descargar Configuracion'. It
\* runs the four checks and sys_config itself, then writes the record. The
\* folder ./configurations may exist or not; open raises when it does not.
\* The values of the module dict come from outside (a parsed file, a
\* repository, a service): the JSON encoder accepts them (dumped) or raises
\* TypeError at the first one it refuses.
on_button_clicked_download(configurations, dumped) ==
  \E technology \in PVFreeTechnologies :
  \E inverter_st \in {check_inverter}, module_st \in {check_module(technology)} :
  \E system_configuration \in {generate(inverter_st, module_st)} :
    LET opened == system_configuration.ok /\ configurations
        completed == opened /\ dumped
    IN /\ inverter_status' = inverter_st
       /\ module_status' = IF inverter_st.ok THEN module_st ELSE UnsetModule
       /\ mount_status' = IF inverter_st.ok /\ module_st.ok
                          THEN check_mount(w_subarrays)
                          ELSE Unset
       /\ modbtn' = IF inverter_st.ok
                    THEN [modbtn EXCEPT !.files = check_module_files]
                    ELSE modbtn
       /\ output' = IF ~system_configuration.ok THEN system_configuration
                    ELSE IF ~configurations THEN Raise("FileNotFoundError")
                    ELSE IF ~dumped THEN Raise("TypeError")
                    ELSE Ok([json_file |-> json_file,
                             system_configuration |-> system_configuration.val])
       /\ files' = IF completed
                   THEN with_open_w(files, json_file, json_dump(system_configuration.val))
                   ELSE IF opened
                   THEN with_open_w_raising(files, json_file,
                                            json_dump(system_configuration.val))
                   ELSE files
       /\ download_btn' = IF completed THEN "Configuracion Descargada" ELSE download_btn
       /\ UNCHANGED <<inverter_vars, module_btn, module_vbox, dropdown_modrepo,
                      dropdown_modmanu, upload_modbtn, bifacial_vbox>>
       /\ UNCHANGED <<sysconfig_vars, assembly_vars, cen_vars>>
       /\ UNCHANGED <<genconfig_output, w_name, generated>>

InitSysconfig ==
  /\ w_subarrays = 0
  /\ w_mps = <<>>
  /\ w_spi = <<>>
  /\ tracker_btn = None
  /\ sysconfig_vbox = <<[w |-> "header_TO"], [w |-> "tracker_btn"]>>
  /\ genconfig_btn = "Generar Configuracion"

InitResults ==
  /\ inverter_status = Unset
  /\ module_status = UnsetModule
  /\ mount_status = Unset
  /\ genconfig_output = Idle
  /\ output = Idle

\* Nombre Planta is blank, nothing was written under ./configurations and
\* nothing was generated.
InitDownload ==
  /\ w_name = <<>>
  /\ download_btn = "Descargar Configuracion"
  /\ files = EmptyDict
  /\ generated = Idle

InitAssembly ==
  /\ num_arrays = 0
  /\ string = <<>>
  /\ typed = <<>>
  /\ geometry = Unset

InitCen ==
  /\ ac = <<>>
  /\ perc = 0
  /\ decimals = 0
  /\ cen = Unset

Init ==
  /\ InitInverter /\ InitModule /\ InitSysconfig /\ InitResults
  /\ InitAssembly /\ InitCen /\ InitDownload

SpecInverter == Init /\ [][NextInverter]_vars

SpecModule == Init /\ [][NextModule]_vars

\* The Diseno Planta tab, with the events of the other two tabs that lead to a
\* manual inverter and a manual module.
Next ==
  \/ handle_toggle_inverter("Manual")
  \/ \E new \in {"", "SNL PVlib"} : handle_dropdown_manual(new)
  \/ handle_modtoggle("Manual")
  \/ \E new \in 0..MaxArrays : handle_mppt(new)
  \/ \E t \in CountTexts : edit_w_mps(t)
  \/ \E t \in CountTexts : edit_w_spi(t)
  \/ \E new \in TrackerModes : handle_toggle_tracker(new)
  \/ \E i \in GeometryEdited, t \in UserTexts : edit_geometry(i, t)
  \/ \E v \in RackingOptions : select_w_Racking(v)
  \/ on_genconfig_clicked

Spec == Init /\ [][Next]_vars

\* Generating and downloading: a manual inverter, a module loaded from a .PAN
\* file, one subarray in either mounting mode, the name suffix, and the two
\* buttons of the configuration file.
NextDownload ==
  \/ handle_toggle_inverter("Manual")
  \/ handle_dropdown_manual("SNL PVlib")
  \/ handle_modtoggle("PVsyst")
  \/ \E path \in PanFiles : select_files_pan(path)
  \/ on_modbutton_clicked
  \/ handle_mppt(1)
  \/ \E new \in TrackerModes : handle_toggle_tracker(new)
  \/ select_w_Racking("open_rack")
  \/ \E t \in NameTexts : edit_w_name(t)
  \/ on_genconfig_clicked_recorded
  \/ \E configurations, dumped \in BOOLEAN :
        on_button_clicked_download(configurations, dumped)

SpecDownload == Init /\ [][NextDownload]_vars

\* ------------------------------------------- the list assembly of check_mount
\* The numbers a user types into an angle field, and how they are separated.
Numbers == {0, 7, 12, 105, -3}
Separators == {<<",">>, <<",", " ">>}
TypedLists == UNION {[1..k -> Numbers] : k \in 1..MaxLen}

\* A form whose angle field holds the numbers of `typed`, before check_mount
\* is called with num_arrays subarrays.
InitAssemblyCall ==
  /\ InitInverter /\ InitModule /\ InitSysconfig /\ InitResults /\ InitCen
  /\ InitDownload
  /\ typed \in TypedLists
  /\ \E sep \in Separators : string = JoinWith(typed, sep)
  /\ num_arrays \in 1..MaxLen
  /\ geometry = Unset

\* check_mount binds surface_tilt from the text of its field.
check_mount_assemble ==
  /\ geometry = Unset
  /\ geometry' = AssembleAngles(num_arrays, string)
  /\ UNCHANGED <<num_arrays, string, typed>>
  /\ UNCHANGED <<inverter_vars, module_vars, sysconfig_vars, result_vars, cen_vars,
                 download_vars>>

NextAssembly == check_mount_assemble

SpecAssembly == InitAssemblyCall /\ [][NextAssembly]_vars

\* ------------------------------------------------------------------ get_cen
units == [kW |-> 1000, MW |-> 1000000]

\* The samples of AC power, in watts, and how many of them a call gets.
MaxSamples == 5
AcValues == 1..5
Percentiles == {50, 99, 100}
Decimals == {6, 7}
Samples == UNION {[1..n -> AcValues] : n \in 1..MaxSamples}

RECURSIVE Insert(_, _)
Insert(x, s) ==
  IF s = <<>> THEN <<x>>
  ELSE IF x <= Head(s) THEN <<x>> \o s
  ELSE <<Head(s)>> \o Insert(x, Tail(s))

RECURSIVE np_sort(_)
\* np.sort(ac): the samples in ascending order.
np_sort(s) == IF s = <<>> THEN <<>> ELSE Insert(Head(s), np_sort(Tail(s)))

RECURSIVE np_max(_)
\* np.max(ac), for a non-empty ac.
np_max(s) ==
  IF Len(s) = 1 THEN s[1]
  ELSE LET m == np_max(Tail(s)) IN IF Head(s) >= m THEN Head(s) ELSE m

\* A quotient of two integers, kept exact.
Ratio(num, den) == [num |-> num, den |-> den]

\* The proportional values with the sample count as divisor: a mutant.
proportional_values_by_n(n) == [i \in 1..n |-> Ratio(i - 1, n)]

\* 1. * np.arange(len(ac)) / (len(ac) - 1), element i (0-based) at index i + 1;
\* a denominator of 0 is the nan the division by zero leaves.
proportional_values(n) == [i \in 1..n |-> Ratio(i - 1, n - 1)]

\* The order statistic below the virtual index, without interpolation: a mutant.
np_percentile_lower(a, q) ==
  LET sorted == np_sort(a)
      lo == (q * (Len(a) - 1)) \div 100
  IN Ratio(100 * PyIndex(sorted, lo), 100)

\* np.percentile(ac, perc), default method 'linear', as a quotient over 100: the
\* virtual index perc / 100 * (n - 1) falls between two order statistics and
\* the result is interpolated between them.
np_percentile(a, q) ==
  LET sorted == np_sort(a)
      n == Len(a)
      lo == (q * (n - 1)) \div 100
      rest == (q * (n - 1)) % 100
      hi == IF lo + 1 < n THEN lo + 1 ELSE lo
  IN Ratio(100 * PyIndex(sorted, lo)
             + rest * (PyIndex(sorted, hi) - PyIndex(sorted, lo)), 100)

\* The nearest integer to num / den (den > 0), ties to the even one, as np.round.
RoundHalfEven(num, den) ==
  LET q == num \div den
      r == num % den
  IN IF 2 * r < den THEN q
     ELSE IF 2 * r > den THEN q + 1
     ELSE IF q % 2 = 0 THEN q ELSE q + 1

RECURSIVE np_round(_, _)
\* np.round(x, d) for the quotient x, in units of 10^-d.
np_round(x, d) ==
  IF d > 0 /\ x.den % 10 = 0 THEN np_round(Ratio(x.num, x.den \div 10), d - 1)
  ELSE IF d > 0 THEN np_round(Ratio(10 * x.num, x.den), d - 1)
  ELSE RoundHalfEven(x.num, x.den)

\* get_cen(ac, perc, decimals): the returned cen_per and cen_pmax (in units of
\* 10^-decimals MW) and the locals pac and p that the curve is drawn from.
get_cen_values(a, q, d) ==
  LET pac == np_sort(a)
      p == proportional_values(Len(a))
      per == np_percentile(a, q)
      cen_per == np_round(Ratio(per.num, per.den * units.MW), d)
      cen_pmax == np_round(Ratio(np_max(a), units.MW), d)
  IN [cen_per |-> cen_per, cen_pmax |-> cen_pmax, pac |-> pac, p |-> p]

\* The same call with the rank formula evaluated by Python's scalar division,
\* which raises on a zero divisor.
get_cen_call_scalar_division(a, q, d) ==
  IF Len(a) - 1 = 0
  THEN Raise("ZeroDivisionError")
  ELSE Ok(get_cen_values(a, q, d))

\* The outcome of a call. The rank formula divides a numpy array by
\* len(ac) - 1: with a zero divisor numpy stores nan in the array and emits a
\* RuntimeWarning, it raises nothing, and every later statement runs.
get_cen_call(a, q, d) == Ok(get_cen_values(a, q, d))

\* The arguments of a call of get_cen.
InitCenCall ==
  /\ InitInverter /\ InitModule /\ InitSysconfig /\ InitResults /\ InitAssembly
  /\ InitDownload
  /\ ac \in Samples
  /\ perc \in Percentiles
  /\ decimals \in Decimals
  /\ cen = Unset

\* The call returns; drawing the curve or not changes nothing that is returned.
get_cen(curve) ==
  /\ cen = Unset
  /\ curve \in BOOLEAN
  /\ cen' = get_cen_call(ac, perc, decimals)
  /\ UNCHANGED <<ac, perc, decimals>>
  /\ UNCHANGED <<inverter_vars, module_vars, sysconfig_vars, result_vars, assembly_vars,
                 download_vars>>

NextCen == \E curve \in BOOLEAN : get_cen(curve)

SpecCen == InitCenCall /\ [][NextCen]_vars

\* ------------------------------------------------------------ properties
\* The geometry lists of the mount mode that a configuration declares.
ActiveLists(c) ==
  IF c.with_tracker THEN {c.axis_tilt, c.axis_azimuth, c.max_angle}
  ELSE {c.surface_tilt, c.surface_azimuth}

\* The geometry lists of the other mount mode.
InactiveLists(c) ==
  IF c.with_tracker THEN {c.surface_tilt, c.surface_azimuth}
  ELSE {c.axis_tilt, c.axis_azimuth, c.max_angle}

\* C1: in every configuration that a click on 'Generar Configuracion' produces,
\* the lists of the mode that with_tracker names are non-null lists and the
\* lists of the other mode are null: exactly one field set is populated.
C1_MountMode ==
  genconfig_output.ok =>
    LET c == genconfig_output.val IN
      /\ c.with_tracker \in BOOLEAN
      /\ \A l \in ActiveLists(c) : ~l.null
      /\ \A l \in InactiveLists(c) : l = NoneList

\* A configuration for two subarrays on a tracker has been produced.
C1_TrackerProduced ==
  /\ genconfig_output.ok
  /\ genconfig_output.val.with_tracker
  /\ genconfig_output.val.num_arrays = 2
  /\ genconfig_output.val.max_angle = PyList(<<0, 0>>)

\* C2: in every produced configuration every geometry list of the active mount
\* mode has as many elements as num_arrays, the subarray count at generation.
C2_GeometryLength ==
  genconfig_output.ok =>
    LET c == genconfig_output.val IN
      \A l \in ActiveLists(c) : ~l.null /\ Len(l.list) = c.num_arrays

\* A configuration has been produced, from fields no user has retyped, whose
\* tilt list is shorter than the subarray count it declares.
C2_StaleForm ==
  /\ genconfig_output.ok
  /\ ~genconfig_output.val.with_tracker
  /\ genconfig_output.val.num_arrays = 2
  /\ genconfig_output.val.surface_tilt = PyList(<<0>>)
  /\ genconfig_output.val.surface_azimuth = PyList(<<0>>)

\* C3: in every produced configuration modules_per_string, strings_per_inverter
\* and every geometry list of the active mount mode have the same length.
C3_SameCardinality ==
  genconfig_output.ok =>
    LET c == genconfig_output.val IN
      /\ Len(c.modules_per_string) = Len(c.strings_per_inverter)
      /\ \A l \in ActiveLists(c) : ~l.null /\ Len(l.list) = Len(c.modules_per_string)

\* A configuration has been produced, from fields no user has retyped, whose
\* electrical lists have two elements and whose angle lists have one.
C3_RefreshedCounts ==
  /\ genconfig_output.ok
  /\ genconfig_output.val.with_tracker
  /\ genconfig_output.val.modules_per_string = <<0, 0>>
  /\ genconfig_output.val.strings_per_inverter = <<0, 0>>
  /\ genconfig_output.val.axis_tilt = PyList(<<0>>)
  /\ genconfig_output.val.axis_azimuth = PyList(<<0>>)
  /\ genconfig_output.val.max_angle = PyList(<<0>>)

\* C4: when the field holds as many numbers as there are subarrays, the list
\* check_mount binds has exactly these numbers in the order typed; this covers
\* k > 1 (str_to_list) and k = 1 (a bare scalar wrapped in a list).
C4_Assembly ==
  (geometry # Unset /\ num_arrays = Len(typed)) => geometry = Ok(typed)

\* Three numbers typed for three subarrays have been assembled.
C4_ThreeAssembled ==
  /\ num_arrays = 3
  /\ string = <<"7", ",", " ", "-", "3", ",", " ", "1", "0", "5">>
  /\ geometry = Ok(<<7, -3, 105>>)

C6_DocumentedTechnology ==
  module_status.ok =>
    module_status.val.module.Technology \in {"monosi", "multisi", "cigs", "cdte", "asi", None}

\* check_module has returned for a manual module of type 'polysi'.
C6_PolisiReturned ==
  /\ module_btn = "Manual"
  /\ module_status.ok
  /\ module_status.t = "polysi"
  /\ module_status.val.module.Technology = "polisi"

\* The fields of the module record.
ModuleFields ==
  {"T_NOCT", "Technology", "N_s", "I_sc_ref", "V_oc_ref", "I_mp_ref", "V_mp_ref",
   "alpha_sc", "beta_oc", "gamma_r", "STC"}

\* C7 (as amended): for every module source the record that check_module returns
\* has exactly the 11 fields T_NOCT, Technology, N_s, I_sc_ref, V_oc_ref, I_mp_ref,
\* V_mp_ref, alpha_sc, beta_oc, gamma_r and STC, and no other field.
C7_ElevenFields ==
  module_status.ok => DOMAIN module_status.val.module = ModuleFields

\* C7 as stated: the record has exactly 10 fields.
C7_TenFields ==
  module_status.ok => Cardinality(DOMAIN module_status.val.module) = 10

\* check_module has returned for a loaded PVsyst file, whose stored record got
\* a_ref written into it.
C7_PVsystReturned ==
  /\ module_btn = "PVsyst"
  /\ module_status.ok
  /\ "a_ref" \in DOMAIN modbtn.files["mod"]
  /\ module_status.val.module.STC = 263500

\* C8: every result of check_inverter has the tag 'sandia' exactly when its
\* record has the 9 coefficients (repository, manual 'SNL PVlib') and the tag
\* 'pvwatts' exactly when it has Pdco and eta_inv_nom (PVsyst, manual 'NREL
\* PVWatts'); there is no other tag and no other field set.
C8_AcModelTag ==
  inverter_status.ok =>
    LET inverter == inverter_status.val.inverter
        ac_model == inverter_status.val.ac_model
        sandia == {"Paco", "Pdco", "Vdco", "Pso", "C0", "C1", "C2", "C3", "Pnt"}
        pvwatts == {"Pdco", "eta_inv_nom"}
    IN /\ ac_model \in {"sandia", "pvwatts"}
       /\ DOMAIN inverter \in {sandia, pvwatts}
       /\ ac_model = "sandia" <=> DOMAIN inverter = sandia
       /\ ac_model = "pvwatts" <=> DOMAIN inverter = pvwatts
       /\ ac_model = "sandia" <=>
            \/ inverter_btn = "Repositorio"
            \/ inverter_btn = "Manual" /\ dropdown_manual = "SNL PVlib"
       /\ ac_model = "pvwatts" <=>
            \/ inverter_btn = "PVsyst"
            \/ inverter_btn = "Manual" /\ dropdown_manual = "NREL PVWatts"

\* check_inverter has returned the record of a loaded PVsyst file.
C8_PVsystReturned ==
  /\ inverter_btn = "PVsyst"
  /\ inverter_status.ok
  /\ inverter_status.val.ac_model = "pvwatts"
  /\ DOMAIN inverter_status.val.inverter = {"Pdco", "eta_inv_nom"}

\* How often v occurs in s.
Count(s, v) == Cardinality({i \in DOMAIN s : s[i] = v})

\* s holds the elements of a in ascending order.
IsSortOf(s, a) ==
  /\ Len(s) = Len(a)
  /\ \A v \in AcValues : Count(s, v) = Count(a, v)
  /\ \A i \in 1..(Len(s) - 1) : s[i] <= s[i + 1]

\* v, in units of 1/scale, is num / den rounded to the nearest unit, a tie to
\* the even neighbour (scale * den stays below 2^31 for the samples drawn).
IsRounded(v, num, den, scale) ==
  LET twice == 2 * (v * den - num * scale)
  IN /\ twice <= den /\ 0 - twice <= den
     /\ (twice = den \/ 0 - twice = den) => v % 2 = 0

\* C9: get_cen returns the largest sample and the perc-th percentile of the
\* samples, interpolated linearly between the two order statistics around rank
\* perc / 100 * (n - 1), each divided by 1 000 000 and rounded to `decimals`
\* places; for an odd number of samples and perc = 50 the percentile is the
\* median, and [1,2,3,4,5], 50, 6 gives 5e-6 and 3e-6.
C9_MaxAndPercentile ==
  cen.ok =>
    LET n == Len(ac)
        s == cen.val.pac
        rank == perc * (n - 1)
        scale == IF decimals = 6 THEN 1 ELSE 10
    IN /\ IsSortOf(s, ac)
       /\ \E i \in 1..n : scale * s[n] = cen.val.cen_pmax /\ s[n] = ac[i]
       /\ \A i \in 1..n : scale * ac[i] <= cen.val.cen_pmax
       /\ \E lo \in 1..n :
            /\ 100 * (lo - 1) <= rank
            /\ rank < 100 * lo \/ lo = n
            /\ LET hi == IF lo < n THEN lo + 1 ELSE n
               IN IsRounded(cen.val.cen_per,
                            100 * s[lo] + (rank - 100 * (lo - 1)) * (s[hi] - s[lo]),
                            100, scale)
       /\ (n % 2 = 1 /\ perc = 50) => cen.val.cen_per = scale * s[(n + 1) \div 2]
       /\ (ac = <<1, 2, 3, 4, 5>> /\ perc = 50 /\ decimals = 6)
            => cen.val.cen_pmax = 5 /\ cen.val.cen_per = 3

\* get_cen has returned for the samples of the example, given out of order.
C9_ExampleReturned ==
  /\ ac = <<4, 1, 5, 2, 3>> /\ perc = 50 /\ decimals = 6
  /\ cen.ok
  /\ cen.val.cen_pmax = 5 /\ cen.val.cen_per = 3

\* C10: with n >= 2 samples, the i-th sample in ascending order (i = 0..n-1) is
\* paired with i / (n - 1): 0.0 for the smallest, 1.0 for the largest, strictly
\* increasing with rank.
C10_CumulativeProbability ==
  (cen.ok /\ Len(ac) >= 2) =>
    LET n == Len(ac)
        pac == cen.val.pac
        p == cen.val.p
    IN /\ IsSortOf(pac, ac)
       /\ Len(p) = n
       /\ \A i \in 1..n : p[i].den > 0 /\ p[i].num * (n - 1) = (i - 1) * p[i].den
       /\ p[1].num = 0
       /\ p[n].num = p[n].den
       /\ \A i \in 1..(n - 1) : p[i].num * p[i + 1].den < p[i + 1].num * p[i].den

\* get_cen has returned for three samples given out of order.
C10_ThreeRanked ==
  /\ ac = <<3, 1, 2>>
  /\ cen.ok
  /\ cen.val.pac = <<1, 2, 3>>
  /\ cen.val.p = <<Ratio(0, 2), Ratio(1, 2), Ratio(2, 2)>>

\* C11: as stated, a call of get_cen with a single sample fails on the division
\* by zero of the rank formula and returns no result.
C11_SingleSampleFails ==
  (cen.err # "unset" /\ Len(ac) = 1) => ~cen.ok

\* C11, as the code behaves: a call of get_cen with a single sample returns;
\* the only cumulative probability is 0/0 (nan), the sorted powers are the
\* sample, and both the percentile and the maximum are the rounded sample.
C11_SingleSampleReturns ==
  (cen.err # "unset" /\ Len(ac) = 1) =>
    /\ cen.ok
    /\ cen.val.pac = ac
    /\ cen.val.p = <<Ratio(0, 0)>>
    /\ cen.val.cen_pmax = np_round(Ratio(ac[1], units.MW), decimals)
    /\ cen.val.cen_per = cen.val.cen_pmax

\* get_cen has returned for one sample.
C11_OneSampleReturned ==
  /\ ac = <<3>>
  /\ cen.ok
  /\ cen.val.p = <<Ratio(0, 0)>>

\* The file name the documentation gives for a name suffix.
DocumentedPath(name) ==
  IF name = <<>>
  THEN <<"./configurations/system_config.json">>
  ELSE <<"./configurations/system_config_">> \o name \o <<".json">>

\* C12: a click on the download button creates or rewrites no file but
\* ./configurations/system_config.json when Nombre Planta is blank and
\* ./configurations/system_config_<name>.json when it is not, and a download
\* that completed has written that file.
C12_DownloadPath ==
  [][/\ \A path \in DOMAIN files' :
          (path \notin DOMAIN files \/ files'[path] # files[path]) =>
            path = DocumentedPath(w_name)
     /\ output'.ok =>
          /\ output'.val.json_file = DocumentedPath(w_name')
          /\ DocumentedPath(w_name') \in DOMAIN files']_vars

\* A download with the suffix p1 has completed.
C12_SuffixedWritten ==
  /\ w_name = <<"p", "1">>
  /\ output.ok
  /\ <<"./configurations/system_config_", "p", "1", ".json">> \in DOMAIN files
  /\ download_btn = "Configuracion Descargada"

\* C13: as stated, the file that a download writes holds the record of the
\* last click on 'Generar Configuracion' that completed, and no file is written
\* before such a click has completed.
C13_DownloadWritesGenerated ==
  /\ (DOMAIN files # {}) => generated.ok
  /\ output.ok =>
       /\ generated.ok
       /\ files[output.val.json_file].content = json_dump(generated.val)

\* A download has written a file although no configuration was ever generated.
C13_WrittenUngenerated ==
  /\ output.ok
  /\ ~generated.ok
  /\ genconfig_btn = "Generar Configuracion"
  /\ DOMAIN files # {}

\* A download has written a record other than the one generated last: the name
\* suffix was typed between the two clicks.
C13_WrittenOtherRecord ==
  /\ output.ok
  /\ generated.ok
  /\ generated.val.name = <<>>
  /\ files[output.val.json_file].content.name = <<"p", "1">>

\* The 34 parameters that the documentation of the configuration numbers.
DocumentedParameters ==
  {"latitude", "longitude", "tz", "altitude", "surface_type", "surface_albedo",
   "inverters_database", "inverter_name", "inverter", "ac_model",
   "modules_database", "module_name", "module", "bifacial", "bifaciality",
   "row_height", "row_width", "with_tracker", "surface_azimuth", "surface_tilt",
   "axis_tilt", "axis_azimuth", "max_angle", "module_type", "racking_model",
   "num_arrays", "modules_per_string", "strings_per_inverter", "num_inverter",
   "loss", "kpc", "kt", "kin", "name"}

\* The documented parameters that name where a record came from.
ProvenanceParameters ==
  {"surface_type", "inverters_database", "inverter_name", "modules_database",
   "module_name", "module_type", "racking_model"}

\* C14: as stated, the record that sys_config returns has every one of the 34
\* documented parameters as a key, surface_type, inverters_database,
\* inverter_name, modules_database, module_name, module_type and racking_model
\* among them.
C14_DocumentedKeys ==
  genconfig_output.ok =>
    /\ Cardinality(DocumentedParameters) = 34
    /\ DocumentedParameters \subseteq DOMAIN genconfig_output.val

\* A configuration was generated with 27 keys, none of the seven among them.
C14_SevenKeysMissing ==
  /\ genconfig_output.ok
  /\ Cardinality(DOMAIN genconfig_output.val) = 27
  /\ DOMAIN genconfig_output.val = DocumentedParameters \ ProvenanceParameters

\* The module type that goes with each racking model.
RackingModuleType ==
  [racking_model \in {"open_rack", "close_mount", "insulated_back"} |->
     IF racking_model = "insulated_back" THEN "glass_polymer" ELSE "glass_glass"]

C16_SameCoefficients ==
  (module_status.ok /\ module_status.val.modules_database = "CECMod") =>
    LET raw == FindName(CECMod, module_status.val.modules_name).val
        cec == module_status.val.module
        pvfree == ModuleFromPVFreeCec(raw)
    IN /\ cec.alpha_sc = pvfree.alpha_sc
       /\ cec.beta_oc = pvfree.beta_oc

\* check_module has returned the CECMod module whose raw alpha_sc is
\* 0.004539 A/C and raw beta_oc -0.22216 V/C: the record carries 0.089 and
\* -0.374007 (percent per degree) instead.
C16_CECModRescaled ==
  /\ module_status.ok
  /\ module_status.val.modules_database = "CECMod"
  /\ module_status.val.modules_name = "Canadian_Solar_CS5P_220M"
  /\ FindName(CECMod, "Canadian_Solar_CS5P_220M").val.alpha_sc = 4539
  /\ module_status.val.module.alpha_sc = PercentOf(4539, 5100)
  /\ module_status.val.module.alpha_sc # 4539
  /\ module_status.val.module.beta_oc # -222160

\* C17: as stated, a click on 'Generar Configuracion' or on 'Descargar
\* Configuracion' leaves the stored raw records as they were: btn.files and
\* modbtn.files have the same keys and values after every step in which
\* check_inverter and check_module ran.
C17_StoredRecordsUnchanged ==
  [][(inverter_status'.ok /\ module_status'.ok) =>
       /\ btn'.files = btn.files
       /\ modbtn'.files = modbtn.files]_vars

\* A configuration was generated from a loaded .PAN record, and the stored
\* record has the key a_ref that the loaded file did not have.
C17_StoredRecordGrew ==
  /\ genconfig_output.ok
  /\ module_btn = "PVsyst"
  /\ "a_ref" \in DOMAIN modbtn.files["mod"]
  /\ \A path \in PanFiles : "a_ref" \notin DOMAIN pan_to_module_param(path).val

\* C18: a click on 'Generar Configuracion' builds its record from the widget
\* values of the moment only: while no input is edited, every further click on
\* it produces the record of the click before, whether or not a download ran in
\* between and whether or not an earlier click has touched the stored records.
C18_GenerateAfresh ==
  [][(genconfig_output.ok /\ genconfig_output'.ok) =>
       genconfig_output'.val = genconfig_output.val]_vars

\* A configuration was generated and one was downloaded from the same inputs
\* of a loaded .PAN module, and the two records are equal.
C18_GeneratedAndDownloaded ==
  /\ genconfig_output.ok
  /\ output.ok
  /\ module_btn = "PVsyst"
  /\ generated = genconfig_output
  /\ output.val.system_configuration = genconfig_output.val

\* C19: the files under ./configurations change only in a step of the download
\* callback, and only the file at json_file does; a download that completed has
\* left the whole dumped record in it; every other callback leaves the files as
\* they are, and no file is open once a callback has returned.
C19_FileTouchedByDownloadOnly ==
  [][/\ \A path \in DOMAIN files' : ~files'[path].open
     /\ (files' # files) =>
          /\ \E configurations, dumped \in BOOLEAN :
               on_button_clicked_download(configurations, dumped)
          /\ \A path \in DOMAIN files' :
               path # DocumentedPath(w_name) =>
                 (path \in DOMAIN files /\ files'[path] = files[path])
     /\ (output'.ok /\ output' # output) =>
          files'[output'.val.json_file].content =
            json_dump(output'.val.system_configuration)]_vars

\* A file was downloaded, an input of the form touched, and a configuration
\* generated: the file is there, closed, as it was written.
C19_FileKeptByGenerate ==
  /\ output.err = "idle"
  /\ genconfig_output.ok
  /\ w_name = <<>>
  /\ DOMAIN files = {<<"./configurations/system_config.json">>}
  /\ ~files[<<"./configurations/system_config.json">>].open
  /\ files[<<"./configurations/system_config.json">>].content = json_dump(genconfig_output.val)

\* C20: with more than one subarray, a click on 'Generar Configuracion' refuses
\* no list for its length: whenever the inverter and the module are accepted, a
\* racking model is selected and every list field holds the text of a JSON
\* list, the configuration is generated and carries each list as typed,
\* whatever its number of elements.
C20_MismatchNotRejected ==
  LET k == w_subarrays
      fixed == tracker_btn = "Sin Seguidor"
      angles == IF fixed THEN {0, 1} ELSE {0, 1, 2}
      racking_model == IF fixed THEN FormValue(2) ELSE FormValue(3)
      c == genconfig_output.val
  IN (/\ genconfig_output.err # "idle"
      /\ k > 1
      /\ inverter_status.ok /\ module_status.ok
      /\ tracker_btn \in TrackerModes
      /\ racking_model \in DOMAIN RackingModuleType
      /\ \A i \in angles : str_to_list(FormValue(i)).ok
      /\ str_to_list(w_mps).ok /\ str_to_list(w_spi).ok) =>
       /\ genconfig_output.ok
       /\ c.num_arrays = k
       /\ c.modules_per_string = str_to_list(w_mps).val
       /\ c.strings_per_inverter = str_to_list(w_spi).val
       /\ IF fixed
          THEN /\ c.surface_tilt = PyList(str_to_list(FormValue(0)).val)
               /\ c.surface_azimuth = PyList(str_to_list(FormValue(1)).val)
          ELSE /\ c.axis_tilt = PyList(str_to_list(FormValue(0)).val)
               /\ c.axis_azimuth = PyList(str_to_list(FormValue(1)).val)
               /\ c.max_angle = PyList(str_to_list(FormValue(2)).val)

\* A configuration for two subarrays has been generated in tracker mode with
\* the one-element axis tilt a user typed.
C20_OneOfTwoGenerated ==
  /\ genconfig_output.ok
  /\ genconfig_output.val.with_tracker
  /\ genconfig_output.val.num_arrays = 2
  /\ genconfig_output.val.axis_tilt = PyList(<<7>>)
  /\ Len(genconfig_output.val.axis_azimuth.list) = 2

\* C21: as stated, the database and the equipment name of a status list are
\* None for every source that is no pvlib repository: for an inverter from
\* PVsyst or entered by hand, and for a module from PVFree, from PVsyst or
\* entered by hand.
C21_NonRepositoryNull ==
  /\ (inverter_status.ok /\ inverter_btn \in {"PVsyst", "Manual"}) =>
       /\ inverter_status.val.inverters_database = None
       /\ inverter_status.val.inverter_name = None
  /\ (/\ module_status.ok
      /\ \/ module_btn \in {"PVsyst", "Manual"}
         \/ module_btn = "Repositorio" /\ dropdown_modrepo = "PVFree") =>
       /\ module_status.val.modules_database = None
       /\ module_status.val.modules_name = None

\* check_module has returned for a module fetched from PVFree, with the
\* repository and the name of the fetched record in its status list.
C21_PVFreeNamed ==
  /\ module_status.ok
  /\ module_btn = "Repositorio"
  /\ dropdown_modrepo = "PVFree"
  /\ module_status.val.modules_database = "PVFree"
  /\ module_status.val.modules_name = "Canadian Solar CS5P-220M"

\* The inverter half of C21, which holds: no database and no name for an
\* inverter from PVsyst or entered by hand.
C21_InverterNull ==
  (inverter_status.ok /\ inverter_btn \in {"PVsyst", "Manual"}) =>
    /\ inverter_status.val.inverters_database = None
    /\ inverter_status.val.inverter_name = None

\* C22: as stated, in every state of the Inversor tab the children that
\* check_inverter indexes for the current mode exist: with 'Repositorio', a
\* repository and a manufacturer selected, inverter_vbox has its fourth child,
\* the model dropdown; with 'Manual' and the format 'SNL PVlib' or
\* 'NREL PVWatts', it has its third child, the form of that format.
C22_IndexedChildrenExist ==
  /\ (/\ inverter_btn = "Repositorio"
      /\ dropdown_invrepo # None
      /\ dropdown_manufac.value \notin {None, ""}) =>
       /\ HasIndex(inverter_vbox, 3)
       /\ PyIndex(inverter_vbox, 3).w = "w_dropinv"
  /\ (inverter_btn = "Manual" /\ dropdown_manual \in {"SNL PVlib", "NREL PVWatts"}) =>
       /\ HasIndex(inverter_vbox, 2)
       /\ PyIndex(inverter_vbox, 2).w = "inv_conf"
       /\ Len(PyIndex(inverter_vbox, 2).children) =
            IF dropdown_manual = "SNL PVlib" THEN 10 ELSE 3

\* The mode was switched away from 'Manual' and back: the format still reads
\* 'SNL PVlib', the tab shows no form, and check_inverter has raised on the
\* missing child.
C22_FormGoneAfterToggle ==
  /\ inverter_btn = "Manual"
  /\ dropdown_manual = "SNL PVlib"
  /\ inverter_vbox = <<W_inverter_btn, W_dropmanual>>
  /\ ~inverter_status.ok
  /\ inverter_status.err = "IndexError"

\* The same after switching away from 'Repositorio' and back: the repository
\* and the manufacturer are still selected and the model dropdown is gone.
C22_ModelDropdownGone ==
  /\ inverter_btn = "Repositorio"
  /\ dropdown_invrepo = "CECInverter"
  /\ dropdown_manufac.value = "ABB"
  /\ inverter_vbox = <<W_inverter_btn, W_dropinvrepo, W_dropmanufac>>
  /\ inverter_status.err = "IndexError"

\* C23: as stated, a click on the download button that fails at any step, the
\* four checks, sys_config, opening the file or the JSON serialization, leaves
\* every file with the content it had and the button with the label it had.
C23_DownloadAllOrNothing ==
  [][(/\ \E configurations, dumped \in BOOLEAN :
           on_button_clicked_download(configurations, dumped)
      /\ ~output'.ok) =>
       /\ files' = files
       /\ download_btn' = download_btn]_vars

\* A download completed and a later one raised in json.dump: the button still
\* reads 'Configuracion Descargada' and the file holds the beginning of a
\* record only.
C23_FileTruncated ==
  /\ output.err = "TypeError"
  /\ download_btn = "Configuracion Descargada"
  /\ w_name = <<>>
  /\ <<"./configurations/system_config.json">> \in DOMAIN files
  /\ DOMAIN files[<<"./configurations/system_config.json">>].content = KeysBeforeModule

\* The part of C23 that holds: a download that raises before json.dump, in a
\* check, in sys_config or in open, changes no file and no label.
C23_FailureBeforeDumpKeepsFile ==
  [][(/\ \E configurations, dumped \in BOOLEAN :
           on_button_clicked_download(configurations, dumped)
      /\ ~output'.ok
      /\ output'.err # "TypeError") =>
       /\ files' = files
       /\ download_btn' = download_btn]_vars

\* A form that cannot yield a configuration: no subarray, a mode not selected,
\* the manual inverter format blank, or the racking model blank.
IncompleteForm ==
  \/ w_subarrays <= 0
  \/ inverter_btn = None
  \/ module_btn = None
  \/ tracker_btn = None
  \/ inverter_btn = "Manual" /\ dropdown_manual \in {None, ""}
  \/ /\ tracker_btn \in TrackerModes
     /\ LET form == PyIndex(sysconfig_vbox, 2).children
        IN form[Len(form)].value \in {None, ""}

\* C24: the button of 'Generar Configuracion' is relabelled only by a click
\* whose check_inverter, check_module, check_mount, check_econfig and
\* sys_config all returned; a click on an incomplete form, the initial form
\* among them, produces no configuration and leaves the label as it was.
C24_LabelAfterAllSteps ==
  [][/\ (genconfig_btn' # genconfig_btn) =>
          /\ genconfig_btn' = "Configuracion Generada"
          /\ inverter_status'.ok /\ module_status'.ok /\ mount_status'.ok
          /\ check_econfig(w_subarrays).ok
          /\ genconfig_output'.ok
     /\ (on_genconfig_clicked /\ IncompleteForm) =>
          /\ ~genconfig_output'.ok
          /\ genconfig_btn' = genconfig_btn]_vars

\* A click on 'Generar Configuracion' with every check passing but no racking
\* model selected has raised, and the label is the initial one.
C24_BlankRackingRefused ==
  /\ genconfig_output.err = "UnboundLocalError"
  /\ genconfig_btn = "Generar Configuracion"
  /\ inverter_status.ok /\ module_status.ok
  /\ w_subarrays = 1
  /\ tracker_btn = "Sin Seguidor"
  /\ FormValue(2) = None
  /\ IncompleteForm

\* C25: as stated, whenever the load button of the inverter reads 'OND Cargado'
\* its files['inv'] is the record parsed from the file that is selected now,
\* so that a load that failed or was cancelled does not show as loaded.
C25_LoadedHoldsSelected ==
  btn.description = "OND Cargado" =>
    LET ond == ond_to_inverter_param(upload_btn.files)
    IN ond.ok /\ btn.files = [inv |-> OndInverter(ond.val)]

\* The file dialog was cancelled, 'Cargar OND' was clicked: the button reads
\* 'OND Cargado' and holds no record.
C25_CancelledShownLoaded ==
  /\ inverter_btn = "PVsyst"
  /\ upload_btn = [files |-> "", description |-> "Seleccionado"]
  /\ btn = [description |-> "OND Cargado", files |-> EmptyDict]

\* A record was loaded and the dialog cancelled afterwards: the button still
\* reads 'OND Cargado' with the record of the file that is no longer selected.
C25_LoadedThenDeselected ==
  /\ upload_btn.files = ""
  /\ btn = [description |-> "OND Cargado",
            files |-> [inv |-> OndInverter(OndContent("inv1.OND"))]]

\* The same on the module tab: 'PAN Cargado' after a cancelled dialog.
C25_PanCancelledShownLoaded ==
  /\ module_btn = "PVsyst"
  /\ upload_modbtn = [files |-> "", description |-> "Seleccionado"]
  /\ modbtn = [description |-> "PAN Cargado", files |-> EmptyDict]

\* C26: as stated, for a module loaded from a PVsyst .PAN file the T_NOCT of
\* the module record of the generated configuration is the T_NOCT stored at
\* load, TRef + 20.
C26_StoredTNOCT ==
  (genconfig_output.ok /\ module_btn = "PVsyst") =>
    /\ genconfig_output.val.module.T_NOCT = modbtn.files["mod"].T_NOCT
    /\ genconfig_output.val.module.T_NOCT = modbtn.files["mod"].TRef + 20 * Milli

\* A configuration generated from mod1.PAN (TRef 25): the stored record has
\* T_NOCT 45, the configuration has T_NOCT 25.
C26_TRefGenerated ==
  /\ genconfig_output.ok
  /\ module_btn = "PVsyst"
  /\ upload_modbtn.files = "mod1.PAN"
  /\ modbtn.files["mod"].TRef = 25 * Milli
  /\ modbtn.files["mod"].T_NOCT = 45 * Milli
  /\ genconfig_output.val.module.T_NOCT = 25 * Milli

====
